---- MODULE Spec2Model ----
(***************************************************************************)
(* The identifier registry of human-ids: createIdContext (src/src/core.ts)  *)
(* and the operations create, getType, getPrefix and isValid of the         *)
(* context it returns, with isType and findAll and the pattern findAll      *)
(* extracts with.                                                           *)
(*                                                                          *)
(* JavaScript strings are sequences of one-character strings.  JavaScript   *)
(* values are records [t, k, s, n]: t is the value's typeof, k tells the    *)
(* values of one typeof apart, s is the text of a string and n the          *)
(* magnitude of a finite number, held in halves (n = 2 * value) so that     *)
(* 2.5 is a value.                                                          *)
(***************************************************************************)
EXTENDS Integers, Sequences, FiniteSets, TLC

VARIABLES definitions, defaultLength, ctorError, typeToPrefix, typeToLength,
          prefixToType, minLength, maxLength, FIND_ALL_REGEX, pending, last

vars == <<definitions, defaultLength, ctorError, typeToPrefix, typeToLength,
          prefixToType, minLength, maxLength, FIND_ALL_REGEX, pending, last>>

registry == <<typeToPrefix, typeToLength, prefixToType, minLength, maxLength>>

inputs == <<definitions, defaultLength, ctorError>>

(***************************************************************************)
(* Bounds.                                                                  *)
(***************************************************************************)
MaxTypes == 2

MaxLen == 2

MaxIdLen == 3

(***************************************************************************)
(* JavaScript values.                                                       *)
(***************************************************************************)
Undefined == [t |-> "undefined", k |-> "undefined", s |-> <<>>, n |-> 0]

Null == [t |-> "object", k |-> "null", s |-> <<>>, n |-> 0]

Str(s) == [t |-> "string", k |-> "string", s |-> s, n |-> 0]

Num(i) == [t |-> "number", k |-> "finite", s |-> <<>>, n |-> 2 * i]

NaN == [t |-> "number", k |-> "NaN", s |-> <<>>, n |-> 0]

Infinity == [t |-> "number", k |-> "Infinity", s |-> <<>>, n |-> 0]

\* A symbol; s is the property key it makes.
Sym(key) == [t |-> "symbol", k |-> "symbol", s |-> key, n |-> 0]

\* An array of strings; s holds its elements.
Arr(xs) == [t |-> "object", k |-> "array", s |-> xs, n |-> 0]

\* The value a plain object inherits under a name of Object.prototype:
\* the prototype object itself under __proto__, a function otherwise.
Native(name) == [t |-> IF name = <<"_","_","p","r","o","t","o","_","_">>
                         THEN "object" ELSE "function",
                 k |-> "Object.prototype", s |-> name, n |-> 0]

Truthy(v) ==
  CASE v.t = "undefined" -> FALSE
    [] v.k = "null" -> FALSE
    [] v.t = "string" -> v.s # <<>>
    [] v.t = "number" -> v.k = "Infinity" \/ (v.k = "finite" /\ v.n # 0)
    [] v.t = "boolean" -> v.k = "true"
    [] OTHER -> TRUE

StrictEquals(a, b) == a.k # "NaN" /\ a = b

MathMin(a, b) ==
  CASE a.k = "NaN" \/ b.k = "NaN" -> NaN
    [] a.k = "Infinity" -> b
    [] b.k = "Infinity" -> a
    [] OTHER -> IF a.n <= b.n THEN a ELSE b

MathMax(a, b) ==
  CASE a.k = "NaN" \/ b.k = "NaN" -> NaN
    [] a.k = "Infinity" -> a
    [] b.k = "Infinity" -> b
    [] OTHER -> IF a.n >= b.n THEN a ELSE b

(***************************************************************************)
(* Strings.                                                                 *)
(***************************************************************************)
Separator == "_"

Includes(s, c) == \E i \in 1..Len(s) : s[i] = c

IndexOf(s, c) ==
  IF Includes(s, c)
  THEN CHOOSE i \in 1..Len(s) : s[i] = c /\ \A j \in 1..(i - 1) : s[j] # c
  ELSE 0

RECURSIVE Split(_, _)
Split(s, c) ==
  IF IndexOf(s, c) = 0
  THEN <<s>>
  ELSE <<SubSeq(s, 1, IndexOf(s, c) - 1)>>
         \o Split(SubSeq(s, IndexOf(s, c) + 1, Len(s)), c)

AlphaNumeric ==
  {"a","b","c","d","e","f","g","h","i","j","k","l","m",
   "n","o","p","q","r","s","t","u","v","w","x","y","z",
   "A","B","C","D","E","F","G","H","I","J","K","L","M",
   "N","O","P","Q","R","S","T","U","V","W","X","Y","Z",
   "0","1","2","3","4","5","6","7","8","9"}

AlphaNumericTest(s) == Len(s) >= 1 /\ \A i \in 1..Len(s) : s[i] \in AlphaNumeric

Digits == <<"0","1","2","3","4","5","6","7","8","9">>

RECURSIVE DecimalText(_)
DecimalText(i) ==
  IF i < 10
  THEN <<Digits[i + 1]>>
  ELSE DecimalText(i \div 10) \o <<Digits[(i % 10) + 1]>>

DigitValue(c) == CHOOSE d \in 0..9 : Digits[d + 1] = c

\* `${v}` of a number v.
NumberText(v) ==
  IF v.k = "NaN" THEN <<"N","a","N">>
  ELSE IF v.k = "Infinity" THEN <<"I","n","f","i","n","i","t","y">>
  ELSE LET m == IF v.n < 0 THEN 0 - v.n ELSE v.n
           sign == IF v.n < 0 THEN <<"-">> ELSE <<>>
           fraction == IF m % 2 = 1 THEN <<".","5">> ELSE <<>>
       IN sign \o DecimalText(m \div 2) \o fraction

\* join(sep) of an array of strings.
RECURSIVE Join(_, _)
Join(xs, sep) ==
  IF Len(xs) = 0 THEN <<>>
  ELSE IF Len(xs) = 1 THEN xs[1]
  ELSE xs[1] \o sep \o Join(Tail(xs), sep)

(***************************************************************************)
(* Plain objects ({}): own properties first, then Object.prototype.         *)
(***************************************************************************)
PROTO == <<"_","_","p","r","o","t","o","_","_">>

CONSTRUCTOR == <<"c","o","n","s","t","r","u","c","t","o","r">>

ObjectPrototypeKeys ==
  {PROTO, CONSTRUCTOR, <<"t","o","S","t","r","i","n","g">>,
   <<"v","a","l","u","e","O","f">>,
   <<"h","a","s","O","w","n","P","r","o","p","e","r","t","y">>,
   <<"i","s","P","r","o","t","o","t","y","p","e","O","f">>,
   <<"p","r","o","p","e","r","t","y","I","s","E","n","u","m","e","r","a","b","l","e">>,
   <<"t","o","L","o","c","a","l","e","S","t","r","i","n","g">>,
   <<"_","_","d","e","f","i","n","e","G","e","t","t","e","r","_","_">>,
   <<"_","_","d","e","f","i","n","e","S","e","t","t","e","r","_","_">>,
   <<"_","_","l","o","o","k","u","p","G","e","t","t","e","r","_","_">>,
   <<"_","_","l","o","o","k","u","p","S","e","t","t","e","r","_","_">>}

\* The text of a function of Object.prototype: Object under constructor,
\* the function of the property's own name otherwise.
FunctionText(name) ==
  <<"f","u","n","c","t","i","o","n"," ">>
    \o (IF name = CONSTRUCTOR THEN <<"O","b","j","e","c","t">> ELSE name)
    \o <<"(",")"," ","{"," ","[","n","a","t","i","v","e"," ",
          "c","o","d","e","]"," ","}">>

\* The property key a value used as obj[key] names: a string and a symbol
\* name themselves, every other value the text String(key) gives.
ToPropertyKey(key) ==
  CASE key.t \in {"string", "symbol"} -> key.s
    [] key.t = "undefined" -> <<"u","n","d","e","f","i","n","e","d">>
    [] key.k = "null" -> <<"n","u","l","l">>
    [] key.t = "boolean" ->
         IF key.k = "true" THEN <<"t","r","u","e">> ELSE <<"f","a","l","s","e">>
    [] key.t = "number" -> NumberText(key)
    [] key.t = "function" -> FunctionText(key.s)
    [] key.k = "array" -> Join(key.s, <<",">>)
    [] OTHER -> <<"[","o","b","j","e","c","t"," ","O","b","j","e","c","t","]">>

\* obj[key]
Get(obj, key) ==
  LET name == ToPropertyKey(key)
  IN IF name = PROTO THEN Native(PROTO)
     ELSE IF name \in DOMAIN obj THEN obj[name]
     ELSE IF name \in ObjectPrototypeKeys THEN Native(name)
     ELSE Undefined

\* obj[name] = v for a primitive v: the __proto__ setter ignores primitives.
Put(obj, name, v) ==
  IF name = PROTO
  THEN obj
  ELSE [p \in DOMAIN obj \cup {name} |-> IF p = name THEN v ELSE obj[p]]

(***************************************************************************)
(* createIdContext: the reduce over Object.keys(definitions).  A definition *)
(* entry is [name, spec]; a spec is [t, prefix, length], t = "string" for a *)
(* bare prefix (whose text is prefix) and "object" for {prefix, length}.    *)
(***************************************************************************)
NoError == [kind |-> "none", cites |-> <<>>]

Error(kind, cites) == [kind |-> kind, cites |-> cites]

Bare(p) == [t |-> "string", prefix |-> p, length |-> Undefined]

Structured(p, l) == [t |-> "object", prefix |-> p, length |-> l]

\* The key of a symbol: no string of characters.
SYMBOL == <<"Symbol(user)">>

\* m < n for m, n written in decimal digits without leading zeros.
IndexLess(m, n) ==
  \/ Len(m) < Len(n)
  \/ /\ Len(m) = Len(n)
     /\ \E i \in 1..Len(m) :
          /\ DigitValue(m[i]) < DigitValue(n[i])
          /\ \A j \in 1..(i - 1) : m[j] = n[j]

\* An array index: an integer below 2^32 - 1 in its canonical writing.
IsArrayIndex(name) ==
  /\ Len(name) >= 1
  /\ \A i \in 1..Len(name) : \E d \in 1..10 : name[i] = Digits[d]
  /\ (Len(name) = 1 \/ name[1] # "0")
  /\ IndexLess(name, <<"4","2","9","4","9","6","7","2","9","5">>)

RECURSIVE Ascending(_)
Ascending(names) ==
  IF Len(names) = 0
  THEN <<>>
  ELSE LET least == CHOOSE i \in 1..Len(names) :
                      \A j \in 1..Len(names) : ~IndexLess(names[j], names[i])
       IN <<names[least]>>
            \o Ascending(SubSeq(names, 1, least - 1)
                           \o SubSeq(names, least + 1, Len(names)))

\* The order in which an object lists its string keys, names being the
\* order they were first written in: the array indices ascending, then the
\* other keys as written.
OwnPropertyKeys(names) ==
  Ascending(SelectSeq(names, IsArrayIndex))
    \o SelectSeq(names, LAMBDA name : ~IsArrayIndex(name))

\* Object.keys(definitions), each key with its value: the string keys in
\* the order an object lists them; symbol keys are left out.
ObjectKeys(defs) ==
  LET named == SelectSeq(defs, LAMBDA entry : entry.name # SYMBOL)
      keys == OwnPropertyKeys([i \in 1..Len(named) |-> named[i].name])
  IN [i \in 1..Len(keys) |->
        named[CHOOSE j \in 1..Len(named) : named[j].name = keys[i]]]

\* prefixKeys holds the properties of prefixToType in the order they were
\* first written.
InitialAcc ==
  [typeToPrefix |-> <<>>, typeToLength |-> <<>>, prefixToType |-> <<>>,
   prefixKeys |-> <<>>,
   minLength |-> Infinity, maxLength |-> Num(0), error |-> NoError]

ResolvedPrefix(spec) == spec.prefix

ResolvedLength(spec, dflt) == IF spec.t = "string" THEN dflt ELSE spec.length

PrefixInvalid(prefix) ==
  ~Truthy(prefix) \/ prefix.t # "string" \/ Includes(prefix.s, Separator)

LengthInvalid(length) ==
  length.t # "number" \/ (length.k = "finite" /\ length.n <= 0)

PrefixClaimed(acc, prefix) == Truthy(Get(acc.prefixToType, prefix))

Reducer(acc, entry, dflt) ==
  LET prefix == ResolvedPrefix(entry.spec)
      length == ResolvedLength(entry.spec, dflt)
  IN IF PrefixInvalid(prefix)
     THEN [acc EXCEPT !.error = Error("InvalidPrefix", entry.name)]
     ELSE IF LengthInvalid(length)
     THEN [acc EXCEPT !.error = Error("InvalidLength", entry.name)]
     ELSE IF PrefixClaimed(acc, prefix)
     THEN [acc EXCEPT !.error = Error("DuplicatePrefix", prefix.s)]
     ELSE   [typeToPrefix |-> Put(acc.typeToPrefix, entry.name, prefix),
             typeToLength |-> Put(acc.typeToLength, entry.name, length),
             prefixToType |-> Put(acc.prefixToType, prefix.s, Str(entry.name)),
             prefixKeys |-> IF prefix.s \in DOMAIN acc.prefixToType
                            THEN acc.prefixKeys
                            ELSE Append(acc.prefixKeys, prefix.s),
             minLength |-> MathMin(acc.minLength, length),
             maxLength |-> MathMax(acc.maxLength, length),
             error |-> NoError]

RECURSIVE Reduce(_, _, _, _)
Reduce(defs, i, acc, dflt) ==
  IF i > Len(defs) \/ acc.error.kind # "none"
  THEN acc
  ELSE Reduce(defs, i + 1, Reducer(acc, defs[i], dflt), dflt)

\* Object.keys(prefixToType).join("|")
allPrefixes(acc) == Join(OwnPropertyKeys(acc.prefixKeys), <<"|">>)

lengthQuantifier(acc) ==
  IF StrictEquals(acc.minLength, acc.maxLength)
  THEN <<"{">> \o NumberText(acc.minLength) \o <<"}">>
  ELSE <<"{">> \o NumberText(acc.minLength) \o <<",">>
         \o NumberText(acc.maxLength) \o <<"}">>

RECURSIVE DecimalValue(_)
DecimalValue(s) ==
  IF Len(s) = 0
  THEN 0
  ELSE 10 * DecimalValue(SubSeq(s, 1, Len(s) - 1)) + DigitValue(s[Len(s)])

(***************************************************************************)
(* Characters.  A character that can be written in a string here stands     *)
(* for itself; any other code unit n is the string \uXXXX of its four hex   *)
(* digits.                                                                  *)
(***************************************************************************)
Ascii ==
  <<"\\u0000", "\\u0001", "\\u0002", "\\u0003", "\\u0004", "\\u0005", "\\u0006", "\\u0007",
   "\\u0008", "\t", "\n", "\\u000b", "\f", "\r", "\\u000e", "\\u000f",
   "\\u0010", "\\u0011", "\\u0012", "\\u0013", "\\u0014", "\\u0015", "\\u0016", "\\u0017",
   "\\u0018", "\\u0019", "\\u001a", "\\u001b", "\\u001c", "\\u001d", "\\u001e", "\\u001f",
   " ", "!", "\"", "#", "$", "%", "&", "'",
   "(", ")", "*", "+", ",", "-", ".", "/",
   "0", "1", "2", "3", "4", "5", "6", "7",
   "8", "9", ":", ";", "<", "=", ">", "?",
   "@", "A", "B", "C", "D", "E", "F", "G",
   "H", "I", "J", "K", "L", "M", "N", "O",
   "P", "Q", "R", "S", "T", "U", "V", "W",
   "X", "Y", "Z", "[", "\\", "]", "^", "_",
   "\\u0060", "a", "b", "c", "d", "e", "f", "g",
   "h", "i", "j", "k", "l", "m", "n", "o",
   "p", "q", "r", "s", "t", "u", "v", "w",
   "x", "y", "z", "{", "|", "}", "~", "\\u007f">>

AsciiSet == {Ascii[i] : i \in 1..128}

HexDigits ==
  <<"0","1","2","3","4","5","6","7","8","9","a","b","c","d","e","f">>

UnitName(n) ==
  "\\u" \o HexDigits[(n \div 4096) + 1] \o HexDigits[((n \div 256) % 16) + 1]
        \o HexDigits[((n \div 16) % 16) + 1] \o HexDigits[(n % 16) + 1]

CharOf(n) == IF n < 128 THEN Ascii[n + 1] ELSE UnitName(n)

AsciiCode == [c \in AsciiSet |-> CHOOSE n \in 0..127 : Ascii[n + 1] = c]

CodeOf(c) ==
  IF c \in AsciiSet
  THEN AsciiCode[c]
  ELSE CHOOSE n \in 128..65535 : UnitName(n) = c

Letters == AlphaNumeric \ {"0","1","2","3","4","5","6","7","8","9"}

DecimalDigits == {"0","1","2","3","4","5","6","7","8","9"}

OctalDigits == {"0","1","2","3","4","5","6","7"}

HexDigitChars ==
  DecimalDigits \cup {"a","b","c","d","e","f","A","B","C","D","E","F"}

HexValue(c) ==
  IF c \in DecimalDigits
  THEN DigitValue(c)
  ELSE CHOOSE d \in 10..15 : CodeOf(c) \in {d + 55, d + 87}

(***************************************************************************)
(* new RegExp(source, "g"): the pattern the source is parsed to.  The       *)
(* grammar is the one of a pattern without the u flag: the web-compatible   *)
(* extensions apply ("{" that opens no quantifier and "]" are literal       *)
(* characters, an escape with no meaning names its character).  A node of   *)
(* the pattern is a record; kind tells the nodes apart.                     *)
(***************************************************************************)
Range(lo, hi) == [lo |-> lo, hi |-> hi]

InRanges(ranges, n) ==
  \E i \in 1..Len(ranges) : ranges[i].lo <= n /\ n <= ranges[i].hi

\* The code units outside ranges, which are ascending and apart.
RECURSIVE Gaps(_, _)
Gaps(ranges, from) ==
  IF Len(ranges) = 0
  THEN IF from <= 65535 THEN <<Range(from, 65535)>> ELSE <<>>
  ELSE (IF from < ranges[1].lo THEN <<Range(from, ranges[1].lo - 1)>> ELSE <<>>)
         \o Gaps(Tail(ranges), ranges[1].hi + 1)

DigitRanges == <<Range(48, 57)>>

WordRanges == <<Range(48, 57), Range(65, 90), Range(95, 95), Range(97, 122)>>

\* White space and line terminators.
SpaceRanges ==
  <<Range(9, 13), Range(32, 32), Range(160, 160), Range(5760, 5760),
    Range(8192, 8202), Range(8232, 8233), Range(8239, 8239),
    Range(8287, 8287), Range(12288, 12288), Range(65279, 65279)>>

\* \d \D \s \S \w \W
EscapeRanges(c) ==
  CASE c = "d" -> DigitRanges
    [] c = "D" -> Gaps(DigitRanges, 0)
    [] c = "s" -> SpaceRanges
    [] c = "S" -> Gaps(SpaceRanges, 0)
    [] c = "w" -> WordRanges
    [] c = "W" -> Gaps(WordRanges, 0)

CharNode(c) == [kind |-> "char", ch |-> c, back |-> FALSE]

\* The characters of Ascii in ranges.
AsciiOf(ranges) ==
  UNION {{Ascii[n + 1] : n \in ranges[i].lo..(IF ranges[i].hi < 127
                                               THEN ranges[i].hi ELSE 127)} :
           i \in 1..Len(ranges)}

\* ascii: the characters of Ascii the class matches.
ClassNode(ranges, negated) ==
  [kind |-> "class", ranges |-> ranges, negated |-> negated,
   ascii |-> IF negated THEN AsciiSet \ AsciiOf(ranges) ELSE AsciiOf(ranges),
   back |-> FALSE]

\* A disjunction: alts holds its alternatives, each a sequence of nodes.
AltNode(alts) == [kind |-> "alt", alts |-> alts]

\* The groups lo + 1 .. hi are the ones inside atom.
RepeatNode(atom, min, max, greedy, lo, hi) ==
  [kind |-> "repeat", atom |-> atom, min |-> min, max |-> max,
   greedy |-> greedy, lo |-> lo, hi |-> hi]

\* The repetition count that stands for no limit, and for every count
\* written that is no smaller.
Unbounded == 2147483647

\* The body of a lookbehind: its terms are matched from the last to the
\* first and its characters against the text before the position.  The
\* body of a lookaround inside keeps its own direction.
RECURSIVE Backward(_)
Backward(node) ==
  CASE node.kind \in {"char", "any", "class", "backref"} ->
         [node EXCEPT !.back = TRUE]
    [] node.kind = "alt" ->
         AltNode([i \in 1..Len(node.alts) |->
                    [j \in 1..Len(node.alts[i]) |->
                       Backward(node.alts[i][Len(node.alts[i]) + 1 - j])]])
    [] node.kind = "group" -> [node EXCEPT !.body = Backward(node.body)]
    [] node.kind = "repeat" -> [node EXCEPT !.atom = Backward(node.atom)]
    [] OTHER -> node

Ok(v, st) == [ok |-> TRUE, v |-> v, st |-> st]

Bad == [ok |-> FALSE]

\* The character of source at position p (from 1), "" past its end.
At(src, p) == IF p >= 1 /\ p <= Len(src) THEN src[p] ELSE ""

\* The end of the run of decimal digits that starts at p.
DigitRunEnd(src, p) ==
  CHOOSE e \in p..(Len(src) + 1) :
    /\ \A j \in p..(e - 1) : src[j] \in DecimalDigits
    /\ At(src, e) \notin DecimalDigits

RECURSIVE StripZeros(_)
StripZeros(s) ==
  IF Len(s) > 1 /\ s[1] = "0" THEN StripZeros(Tail(s)) ELSE s

\* The number the digits write, Unbounded when they write a larger one.
CountValue(s) ==
  LET d == StripZeros(s)
      high == DecimalValue(SubSeq(d, 1, 9))
  IN IF Len(d) > 10 THEN Unbounded
     ELSE IF Len(d) = 10
               /\ (high > Unbounded \div 10
                     \/ (high = Unbounded \div 10
                           /\ DigitValue(d[10]) > Unbounded % 10))
     THEN Unbounded
     ELSE DecimalValue(d)

\* {n,} and {n,m}: e1 is where "," stands and e2 where the digits after it
\* end.
BracedTo(src, p, e1, e2) ==
  IF At(src, e2) # "}"
  THEN [is |-> FALSE]
  ELSE [is |-> TRUE,
        min |-> CountValue(SubSeq(src, p + 1, e1 - 1)),
        max |-> IF e2 = e1 + 1 THEN Unbounded
                ELSE CountValue(SubSeq(src, e1 + 1, e2 - 1)),
        p |-> e2 + 1]

\* {n}, or what BracedTo reads: e1 is where the digits after "{" end.
BracedFrom(src, p, e1) ==
  IF e1 = p + 1 THEN [is |-> FALSE]
  ELSE IF At(src, e1) = "}"
  THEN [is |-> TRUE,
        min |-> CountValue(SubSeq(src, p + 1, e1 - 1)),
        max |-> CountValue(SubSeq(src, p + 1, e1 - 1)),
        p |-> e1 + 1]
  ELSE IF At(src, e1) = ","
  THEN BracedTo(src, p, e1, DigitRunEnd(src, e1 + 1))
  ELSE [is |-> FALSE]

\* {n} {n,} {n,m} at position p, where "{" stands.
Braced(src, p) == BracedFrom(src, p, DigitRunEnd(src, p + 1))

\* The quantifier q, lazy when "?" follows it.
Lazy(src, q) ==
  IF ~q.is THEN [is |-> FALSE]
  ELSE [is |-> TRUE, min |-> q.min, max |-> q.max,
        greedy |-> At(src, q.p) # "?",
        p |-> IF At(src, q.p) = "?" THEN q.p + 1 ELSE q.p]

\* The quantifier at position p, if one stands there: * + ? or braces,
\* lazy when "?" follows.
Quantifier(src, p) ==
  Lazy(src, CASE At(src, p) = "*" ->
                   [is |-> TRUE, min |-> 0, max |-> Unbounded, p |-> p + 1]
              [] At(src, p) = "+" ->
                   [is |-> TRUE, min |-> 1, max |-> Unbounded, p |-> p + 1]
              [] At(src, p) = "?" ->
                   [is |-> TRUE, min |-> 0, max |-> 1, p |-> p + 1]
              [] At(src, p) = "{" -> Braced(src, p)
              [] OTHER -> [is |-> FALSE])

\* The octal escape whose first digit stands at p: up to three digits
\* that stay below 256.
OctalEscape(src, p) ==
  IF At(src, p + 1) \in OctalDigits /\ DigitValue(src[p]) <= 3
       /\ At(src, p + 2) \in OctalDigits
  THEN [code |-> 64 * DigitValue(src[p]) + 8 * DigitValue(src[p + 1])
                   + DigitValue(src[p + 2]),
        p |-> p + 3]
  ELSE IF At(src, p + 1) \in OctalDigits
  THEN [code |-> 8 * DigitValue(src[p]) + DigitValue(src[p + 1]), p |-> p + 2]
  ELSE [code |-> DigitValue(src[p]), p |-> p + 1]

\* Whether n hex digits stand at p.
IsHex(src, p, n) == \A i \in 0..(n - 1) : At(src, p + i) \in HexDigitChars

\* The number the n hex digits at p write.
RECURSIVE HexNumber(_, _, _)
HexNumber(src, p, n) ==
  IF n = 0 THEN 0
  ELSE 16 * HexNumber(src, p, n - 1) + HexValue(src[p + n - 1])

\* The character an escape names, c standing at p after the backslash.
\* controls: what may follow \c.  \c before anything else is a backslash,
\* and the c is read again.
CharacterEscape(src, p, controls) ==
  CASE src[p] = "t" -> [code |-> 9, p |-> p + 1]
    [] src[p] = "n" -> [code |-> 10, p |-> p + 1]
    [] src[p] = "v" -> [code |-> 11, p |-> p + 1]
    [] src[p] = "f" -> [code |-> 12, p |-> p + 1]
    [] src[p] = "r" -> [code |-> 13, p |-> p + 1]
    [] src[p] = "c" ->
         IF At(src, p + 1) \in controls
         THEN [code |-> CodeOf(src[p + 1]) % 32, p |-> p + 2]
         ELSE [code |-> 92, p |-> p]
    [] src[p] \in OctalDigits -> OctalEscape(src, p)
    [] src[p] = "x" /\ IsHex(src, p + 1, 2) ->
         [code |-> HexNumber(src, p + 1, 2), p |-> p + 3]
    [] src[p] = "u" /\ IsHex(src, p + 1, 4) ->
         [code |-> HexNumber(src, p + 1, 4), p |-> p + 5]
    [] OTHER -> [code |-> CodeOf(src[p]), p |-> p + 1]

\* The member of a character class that is the one character esc.
OneOf(esc) ==
  [ok |-> TRUE, multi |-> FALSE, ranges |-> <<Range(esc.code, esc.code)>>,
   p |-> esc.p]

\* One member of a character class at p: its ranges, whether it is a
\* class escape (\d \w \s ...), and where the next member starts.
ClassAtom(src, p, env) ==
  LET c == At(src, p)
      d == At(src, p + 1)
  IN IF c = "" THEN Bad
     ELSE IF c # "\\" THEN OneOf([code |-> CodeOf(c), p |-> p + 1])
     ELSE IF d = "" THEN Bad
     ELSE IF d \in {"d", "D", "s", "S", "w", "W"}
     THEN [ok |-> TRUE, multi |-> TRUE, ranges |-> EscapeRanges(d), p |-> p + 2]
     ELSE IF d = "b" THEN OneOf([code |-> 8, p |-> p + 2])
     ELSE IF d = "k" /\ env.named THEN Bad
     ELSE OneOf(CharacterEscape(src, p + 1,
                                Letters \cup DecimalDigits \cup {"_"}))

\* The members of a character class up to its "]".
RECURSIVE ClassRanges(_, _, _, _)
\* What follows the member a and "-": with the member b a range from a to
\* b, or the two and the "-" when one of them is a class escape.
ClassRange(src, env, ranges, a, b) ==
  IF ~b.ok THEN Bad
  ELSE IF a.multi \/ b.multi
  THEN ClassRanges(src, b.p, env,
                   ranges \o a.ranges \o <<Range(45, 45)>> \o b.ranges)
  ELSE IF a.ranges[1].lo > b.ranges[1].lo THEN Bad
  ELSE ClassRanges(src, b.p, env,
                   Append(ranges, Range(a.ranges[1].lo, b.ranges[1].lo)))

\* What follows the member a.
ClassMember(src, env, ranges, a) ==
  IF ~a.ok THEN Bad
  ELSE IF At(src, a.p) = "-" /\ At(src, a.p + 1) \notin {"]", ""}
  THEN ClassRange(src, env, ranges, a, ClassAtom(src, a.p + 1, env))
  ELSE ClassRanges(src, a.p, env, ranges \o a.ranges)

ClassRanges(src, p, env, ranges) ==
  IF At(src, p) = "" THEN Bad
  ELSE IF At(src, p) = "]" THEN Ok(ranges, p + 1)
  ELSE ClassMember(src, env, ranges, ClassAtom(src, p, env))

\* The class of the ranges r.
ClassOf(negated, r) ==
  IF r.ok THEN Ok(ClassNode(r.v, negated), r.st) ELSE Bad

\* [ ... ] at p, where "[" stands.
CharacterClass(src, p, env) ==
  ClassOf(At(src, p + 1) = "^",
          ClassRanges(src, IF At(src, p + 1) = "^" THEN p + 2 ELSE p + 1,
                      env, <<>>))

\* The code points from 128 on that a name may hold (Unicode 17.0), as
\* first, last, kind one after the other: kind 1 for ID_Start, 0 for what
\* ID_Continue adds to it.
UnicodeIDRanges ==
  <<170, 170, 1, 181, 181, 1, 183, 183, 0, 186, 186, 1, 192, 214, 1, 216, 246,
    1, 248, 705, 1, 710, 721, 1, 736, 740, 1, 748, 748, 1, 750, 750, 1, 768,
    879, 0, 880, 884, 1, 886, 887, 1, 890, 893, 1, 895, 895, 1, 902, 902, 1,
    903, 903, 0, 904, 906, 1, 908, 908, 1, 910, 929, 1, 931, 1013, 1, 1015,
    1153, 1, 1155, 1159, 0, 1162, 1327, 1, 1329, 1366, 1, 1369, 1369, 1, 1376,
    1416, 1, 1425, 1469, 0, 1471, 1471, 0, 1473, 1474, 0, 1476, 1477, 0, 1479,
    1479, 0, 1488, 1514, 1, 1519, 1522, 1, 1552, 1562, 0, 1568, 1610, 1, 1611,
    1641, 0, 1646, 1647, 1, 1648, 1648, 0, 1649, 1747, 1, 1749, 1749, 1, 1750,
    1756, 0, 1759, 1764, 0, 1765, 1766, 1, 1767, 1768, 0, 1770, 1773, 0, 1774,
    1775, 1, 1776, 1785, 0, 1786, 1788, 1, 1791, 1791, 1, 1808, 1808, 1, 1809,
    1809, 0, 1810, 1839, 1, 1840, 1866, 0, 1869, 1957, 1, 1958, 1968, 0, 1969,
    1969, 1, 1984, 1993, 0, 1994, 2026, 1, 2027, 2035, 0, 2036, 2037, 1, 2042,
    2042, 1, 2045, 2045, 0, 2048, 2069, 1, 2070, 2073, 0, 2074, 2074, 1, 2075,
    2083, 0, 2084, 2084, 1, 2085, 2087, 0, 2088, 2088, 1, 2089, 2093, 0, 2112,
    2136, 1, 2137, 2139, 0, 2144, 2154, 1, 2160, 2183, 1, 2185, 2191, 1, 2199,
    2207, 0, 2208, 2249, 1, 2250, 2273, 0, 2275, 2307, 0, 2308, 2361, 1, 2362,
    2364, 0, 2365, 2365, 1, 2366, 2383, 0, 2384, 2384, 1, 2385, 2391, 0, 2392,
    2401, 1, 2402, 2403, 0, 2406, 2415, 0, 2417, 2432, 1, 2433, 2435, 0, 2437,
    2444, 1, 2447, 2448, 1, 2451, 2472, 1, 2474, 2480, 1, 2482, 2482, 1, 2486,
    2489, 1, 2492, 2492, 0, 2493, 2493, 1, 2494, 2500, 0, 2503, 2504, 0, 2507,
    2509, 0, 2510, 2510, 1, 2519, 2519, 0, 2524, 2525, 1, 2527, 2529, 1, 2530,
    2531, 0, 2534, 2543, 0, 2544, 2545, 1, 2556, 2556, 1, 2558, 2558, 0, 2561,
    2563, 0, 2565, 2570, 1, 2575, 2576, 1, 2579, 2600, 1, 2602, 2608, 1, 2610,
    2611, 1, 2613, 2614, 1, 2616, 2617, 1, 2620, 2620, 0, 2622, 2626, 0, 2631,
    2632, 0, 2635, 2637, 0, 2641, 2641, 0, 2649, 2652, 1, 2654, 2654, 1, 2662,
    2673, 0, 2674, 2676, 1, 2677, 2677, 0, 2689, 2691, 0, 2693, 2701, 1, 2703,
    2705, 1, 2707, 2728, 1, 2730, 2736, 1, 2738, 2739, 1, 2741, 2745, 1, 2748,
    2748, 0, 2749, 2749, 1, 2750, 2757, 0, 2759, 2761, 0, 2763, 2765, 0, 2768,
    2768, 1, 2784, 2785, 1, 2786, 2787, 0, 2790, 2799, 0, 2809, 2809, 1, 2810,
    2815, 0, 2817, 2819, 0, 2821, 2828, 1, 2831, 2832, 1, 2835, 2856, 1, 2858,
    2864, 1, 2866, 2867, 1, 2869, 2873, 1, 2876, 2876, 0, 2877, 2877, 1, 2878,
    2884, 0, 2887, 2888, 0, 2891, 2893, 0, 2901, 2903, 0, 2908, 2909, 1, 2911,
    2913, 1, 2914, 2915, 0, 2918, 2927, 0, 2929, 2929, 1, 2946, 2946, 0, 2947,
    2947, 1, 2949, 2954, 1, 2958, 2960, 1, 2962, 2965, 1, 2969, 2970, 1, 2972,
    2972, 1, 2974, 2975, 1, 2979, 2980, 1, 2984, 2986, 1, 2990, 3001, 1, 3006,
    3010, 0, 3014, 3016, 0, 3018, 3021, 0, 3024, 3024, 1, 3031, 3031, 0, 3046,
    3055, 0, 3072, 3076, 0, 3077, 3084, 1, 3086, 3088, 1, 3090, 3112, 1, 3114,
    3129, 1, 3132, 3132, 0, 3133, 3133, 1, 3134, 3140, 0, 3142, 3144, 0, 3146,
    3149, 0, 3157, 3158, 0, 3160, 3162, 1, 3164, 3165, 1, 3168, 3169, 1, 3170,
    3171, 0, 3174, 3183, 0, 3200, 3200, 1, 3201, 3203, 0, 3205, 3212, 1, 3214,
    3216, 1, 3218, 3240, 1, 3242, 3251, 1, 3253, 3257, 1, 3260, 3260, 0, 3261,
    3261, 1, 3262, 3268, 0, 3270, 3272, 0, 3274, 3277, 0, 3285, 3286, 0, 3292,
    3294, 1, 3296, 3297, 1, 3298, 3299, 0, 3302, 3311, 0, 3313, 3314, 1, 3315,
    3315, 0, 3328, 3331, 0, 3332, 3340, 1, 3342, 3344, 1, 3346, 3386, 1, 3387,
    3388, 0, 3389, 3389, 1, 3390, 3396, 0, 3398, 3400, 0, 3402, 3405, 0, 3406,
    3406, 1, 3412, 3414, 1, 3415, 3415, 0, 3423, 3425, 1, 3426, 3427, 0, 3430,
    3439, 0, 3450, 3455, 1, 3457, 3459, 0, 3461, 3478, 1, 3482, 3505, 1, 3507,
    3515, 1, 3517, 3517, 1, 3520, 3526, 1, 3530, 3530, 0, 3535, 3540, 0, 3542,
    3542, 0, 3544, 3551, 0, 3558, 3567, 0, 3570, 3571, 0, 3585, 3632, 1, 3633,
    3633, 0, 3634, 3635, 1, 3636, 3642, 0, 3648, 3654, 1, 3655, 3662, 0, 3664,
    3673, 0, 3713, 3714, 1, 3716, 3716, 1, 3718, 3722, 1, 3724, 3747, 1, 3749,
    3749, 1, 3751, 3760, 1, 3761, 3761, 0, 3762, 3763, 1, 3764, 3772, 0, 3773,
    3773, 1, 3776, 3780, 1, 3782, 3782, 1, 3784, 3790, 0, 3792, 3801, 0, 3804,
    3807, 1, 3840, 3840, 1, 3864, 3865, 0, 3872, 3881, 0, 3893, 3893, 0, 3895,
    3895, 0, 3897, 3897, 0, 3902, 3903, 0, 3904, 3911, 1, 3913, 3948, 1, 3953,
    3972, 0, 3974, 3975, 0, 3976, 3980, 1, 3981, 3991, 0, 3993, 4028, 0, 4038,
    4038, 0, 4096, 4138, 1, 4139, 4158, 0, 4159, 4159, 1, 4160, 4169, 0, 4176,
    4181, 1, 4182, 4185, 0, 4186, 4189, 1, 4190, 4192, 0, 4193, 4193, 1, 4194,
    4196, 0, 4197, 4198, 1, 4199, 4205, 0, 4206, 4208, 1, 4209, 4212, 0, 4213,
    4225, 1, 4226, 4237, 0, 4238, 4238, 1, 4239, 4253, 0, 4256, 4293, 1, 4295,
    4295, 1, 4301, 4301, 1, 4304, 4346, 1, 4348, 4680, 1, 4682, 4685, 1, 4688,
    4694, 1, 4696, 4696, 1, 4698, 4701, 1, 4704, 4744, 1, 4746, 4749, 1, 4752,
    4784, 1, 4786, 4789, 1, 4792, 4798, 1, 4800, 4800, 1, 4802, 4805, 1, 4808,
    4822, 1, 4824, 4880, 1, 4882, 4885, 1, 4888, 4954, 1, 4957, 4959, 0, 4969,
    4977, 0, 4992, 5007, 1, 5024, 5109, 1, 5112, 5117, 1, 5121, 5740, 1, 5743,
    5759, 1, 5761, 5786, 1, 5792, 5866, 1, 5870, 5880, 1, 5888, 5905, 1, 5906,
    5909, 0, 5919, 5937, 1, 5938, 5940, 0, 5952, 5969, 1, 5970, 5971, 0, 5984,
    5996, 1, 5998, 6000, 1, 6002, 6003, 0, 6016, 6067, 1, 6068, 6099, 0, 6103,
    6103, 1, 6108, 6108, 1, 6109, 6109, 0, 6112, 6121, 0, 6155, 6157, 0, 6159,
    6169, 0, 6176, 6264, 1, 6272, 6312, 1, 6313, 6313, 0, 6314, 6314, 1, 6320,
    6389, 1, 6400, 6430, 1, 6432, 6443, 0, 6448, 6459, 0, 6470, 6479, 0, 6480,
    6509, 1, 6512, 6516, 1, 6528, 6571, 1, 6576, 6601, 1, 6608, 6618, 0, 6656,
    6678, 1, 6679, 6683, 0, 6688, 6740, 1, 6741, 6750, 0, 6752, 6780, 0, 6783,
    6793, 0, 6800, 6809, 0, 6823, 6823, 1, 6832, 6845, 0, 6847, 6877, 0, 6880,
    6891, 0, 6912, 6916, 0, 6917, 6963, 1, 6964, 6980, 0, 6981, 6988, 1, 6992,
    7001, 0, 7019, 7027, 0, 7040, 7042, 0, 7043, 7072, 1, 7073, 7085, 0, 7086,
    7087, 1, 7088, 7097, 0, 7098, 7141, 1, 7142, 7155, 0, 7168, 7203, 1, 7204,
    7223, 0, 7232, 7241, 0, 7245, 7247, 1, 7248, 7257, 0, 7258, 7293, 1, 7296,
    7306, 1, 7312, 7354, 1, 7357, 7359, 1, 7376, 7378, 0, 7380, 7400, 0, 7401,
    7404, 1, 7405, 7405, 0, 7406, 7411, 1, 7412, 7412, 0, 7413, 7414, 1, 7415,
    7417, 0, 7418, 7418, 1, 7424, 7615, 1, 7616, 7679, 0, 7680, 7957, 1, 7960,
    7965, 1, 7968, 8005, 1, 8008, 8013, 1, 8016, 8023, 1, 8025, 8025, 1, 8027,
    8027, 1, 8029, 8029, 1, 8031, 8061, 1, 8064, 8116, 1, 8118, 8124, 1, 8126,
    8126, 1, 8130, 8132, 1, 8134, 8140, 1, 8144, 8147, 1, 8150, 8155, 1, 8160,
    8172, 1, 8178, 8180, 1, 8182, 8188, 1, 8204, 8205, 0, 8255, 8256, 0, 8276,
    8276, 0, 8305, 8305, 1, 8319, 8319, 1, 8336, 8348, 1, 8400, 8412, 0, 8417,
    8417, 0, 8421, 8432, 0, 8450, 8450, 1, 8455, 8455, 1, 8458, 8467, 1, 8469,
    8469, 1, 8472, 8477, 1, 8484, 8484, 1, 8486, 8486, 1, 8488, 8488, 1, 8490,
    8505, 1, 8508, 8511, 1, 8517, 8521, 1, 8526, 8526, 1, 8544, 8584, 1,
    11264, 11492, 1, 11499, 11502, 1, 11503, 11505, 0, 11506, 11507, 1, 11520,
    11557, 1, 11559, 11559, 1, 11565, 11565, 1, 11568, 11623, 1, 11631, 11631,
    1, 11647, 11647, 0, 11648, 11670, 1, 11680, 11686, 1, 11688, 11694, 1,
    11696, 11702, 1, 11704, 11710, 1, 11712, 11718, 1, 11720, 11726, 1, 11728,
    11734, 1, 11736, 11742, 1, 11744, 11775, 0, 12293, 12295, 1, 12321, 12329,
    1, 12330, 12335, 0, 12337, 12341, 1, 12344, 12348, 1, 12353, 12438, 1,
    12441, 12442, 0, 12443, 12447, 1, 12449, 12538, 1, 12539, 12539, 0, 12540,
    12543, 1, 12549, 12591, 1, 12593, 12686, 1, 12704, 12735, 1, 12784, 12799,
    1, 13312, 19903, 1, 19968, 42124, 1, 42192, 42237, 1, 42240, 42508, 1,
    42512, 42527, 1, 42528, 42537, 0, 42538, 42539, 1, 42560, 42606, 1, 42607,
    42607, 0, 42612, 42621, 0, 42623, 42653, 1, 42654, 42655, 0, 42656, 42735,
    1, 42736, 42737, 0, 42775, 42783, 1, 42786, 42888, 1, 42891, 42972, 1,
    42993, 43009, 1, 43010, 43010, 0, 43011, 43013, 1, 43014, 43014, 0, 43015,
    43018, 1, 43019, 43019, 0, 43020, 43042, 1, 43043, 43047, 0, 43052, 43052,
    0, 43072, 43123, 1, 43136, 43137, 0, 43138, 43187, 1, 43188, 43205, 0,
    43216, 43225, 0, 43232, 43249, 0, 43250, 43255, 1, 43259, 43259, 1, 43261,
    43262, 1, 43263, 43273, 0, 43274, 43301, 1, 43302, 43309, 0, 43312, 43334,
    1, 43335, 43347, 0, 43360, 43388, 1, 43392, 43395, 0, 43396, 43442, 1,
    43443, 43456, 0, 43471, 43471, 1, 43472, 43481, 0, 43488, 43492, 1, 43493,
    43493, 0, 43494, 43503, 1, 43504, 43513, 0, 43514, 43518, 1, 43520, 43560,
    1, 43561, 43574, 0, 43584, 43586, 1, 43587, 43587, 0, 43588, 43595, 1,
    43596, 43597, 0, 43600, 43609, 0, 43616, 43638, 1, 43642, 43642, 1, 43643,
    43645, 0, 43646, 43695, 1, 43696, 43696, 0, 43697, 43697, 1, 43698, 43700,
    0, 43701, 43702, 1, 43703, 43704, 0, 43705, 43709, 1, 43710, 43711, 0,
    43712, 43712, 1, 43713, 43713, 0, 43714, 43714, 1, 43739, 43741, 1, 43744,
    43754, 1, 43755, 43759, 0, 43762, 43764, 1, 43765, 43766, 0, 43777, 43782,
    1, 43785, 43790, 1, 43793, 43798, 1, 43808, 43814, 1, 43816, 43822, 1,
    43824, 43866, 1, 43868, 43881, 1, 43888, 44002, 1, 44003, 44010, 0, 44012,
    44013, 0, 44016, 44025, 0, 44032, 55203, 1, 55216, 55238, 1, 55243, 55291,
    1, 63744, 64109, 1, 64112, 64217, 1, 64256, 64262, 1, 64275, 64279, 1,
    64285, 64285, 1, 64286, 64286, 0, 64287, 64296, 1, 64298, 64310, 1, 64312,
    64316, 1, 64318, 64318, 1, 64320, 64321, 1, 64323, 64324, 1, 64326, 64433,
    1, 64467, 64829, 1, 64848, 64911, 1, 64914, 64967, 1, 65008, 65019, 1,
    65024, 65039, 0, 65056, 65071, 0, 65075, 65076, 0, 65101, 65103, 0, 65136,
    65140, 1, 65142, 65276, 1, 65296, 65305, 0, 65313, 65338, 1, 65343, 65343,
    0, 65345, 65370, 1, 65381, 65381, 0, 65382, 65470, 1, 65474, 65479, 1,
    65482, 65487, 1, 65490, 65495, 1, 65498, 65500, 1, 65536, 65547, 1, 65549,
    65574, 1, 65576, 65594, 1, 65596, 65597, 1, 65599, 65613, 1, 65616, 65629,
    1, 65664, 65786, 1, 65856, 65908, 1, 66045, 66045, 0, 66176, 66204, 1,
    66208, 66256, 1, 66272, 66272, 0, 66304, 66335, 1, 66349, 66378, 1, 66384,
    66421, 1, 66422, 66426, 0, 66432, 66461, 1, 66464, 66499, 1, 66504, 66511,
    1, 66513, 66517, 1, 66560, 66717, 1, 66720, 66729, 0, 66736, 66771, 1,
    66776, 66811, 1, 66816, 66855, 1, 66864, 66915, 1, 66928, 66938, 1, 66940,
    66954, 1, 66956, 66962, 1, 66964, 66965, 1, 66967, 66977, 1, 66979, 66993,
    1, 66995, 67001, 1, 67003, 67004, 1, 67008, 67059, 1, 67072, 67382, 1,
    67392, 67413, 1, 67424, 67431, 1, 67456, 67461, 1, 67463, 67504, 1, 67506,
    67514, 1, 67584, 67589, 1, 67592, 67592, 1, 67594, 67637, 1, 67639, 67640,
    1, 67644, 67644, 1, 67647, 67669, 1, 67680, 67702, 1, 67712, 67742, 1,
    67808, 67826, 1, 67828, 67829, 1, 67840, 67861, 1, 67872, 67897, 1, 67904,
    67929, 1, 67968, 68023, 1, 68030, 68031, 1, 68096, 68096, 1, 68097, 68099,
    0, 68101, 68102, 0, 68108, 68111, 0, 68112, 68115, 1, 68117, 68119, 1,
    68121, 68149, 1, 68152, 68154, 0, 68159, 68159, 0, 68192, 68220, 1, 68224,
    68252, 1, 68288, 68295, 1, 68297, 68324, 1, 68325, 68326, 0, 68352, 68405,
    1, 68416, 68437, 1, 68448, 68466, 1, 68480, 68497, 1, 68608, 68680, 1,
    68736, 68786, 1, 68800, 68850, 1, 68864, 68899, 1, 68900, 68903, 0, 68912,
    68921, 0, 68928, 68937, 0, 68938, 68965, 1, 68969, 68973, 0, 68975, 68997,
    1, 69248, 69289, 1, 69291, 69292, 0, 69296, 69297, 1, 69314, 69319, 1,
    69370, 69375, 0, 69376, 69404, 1, 69415, 69415, 1, 69424, 69445, 1, 69446,
    69456, 0, 69488, 69505, 1, 69506, 69509, 0, 69552, 69572, 1, 69600, 69622,
    1, 69632, 69634, 0, 69635, 69687, 1, 69688, 69702, 0, 69734, 69744, 0,
    69745, 69746, 1, 69747, 69748, 0, 69749, 69749, 1, 69759, 69762, 0, 69763,
    69807, 1, 69808, 69818, 0, 69826, 69826, 0, 69840, 69864, 1, 69872, 69881,
    0, 69888, 69890, 0, 69891, 69926, 1, 69927, 69940, 0, 69942, 69951, 0,
    69956, 69956, 1, 69957, 69958, 0, 69959, 69959, 1, 69968, 70002, 1, 70003,
    70003, 0, 70006, 70006, 1, 70016, 70018, 0, 70019, 70066, 1, 70067, 70080,
    0, 70081, 70084, 1, 70089, 70092, 0, 70094, 70105, 0, 70106, 70106, 1,
    70108, 70108, 1, 70144, 70161, 1, 70163, 70187, 1, 70188, 70199, 0, 70206,
    70206, 0, 70207, 70208, 1, 70209, 70209, 0, 70272, 70278, 1, 70280, 70280,
    1, 70282, 70285, 1, 70287, 70301, 1, 70303, 70312, 1, 70320, 70366, 1,
    70367, 70378, 0, 70384, 70393, 0, 70400, 70403, 0, 70405, 70412, 1, 70415,
    70416, 1, 70419, 70440, 1, 70442, 70448, 1, 70450, 70451, 1, 70453, 70457,
    1, 70459, 70460, 0, 70461, 70461, 1, 70462, 70468, 0, 70471, 70472, 0,
    70475, 70477, 0, 70480, 70480, 1, 70487, 70487, 0, 70493, 70497, 1, 70498,
    70499, 0, 70502, 70508, 0, 70512, 70516, 0, 70528, 70537, 1, 70539, 70539,
    1, 70542, 70542, 1, 70544, 70581, 1, 70583, 70583, 1, 70584, 70592, 0,
    70594, 70594, 0, 70597, 70597, 0, 70599, 70602, 0, 70604, 70608, 0, 70609,
    70609, 1, 70610, 70610, 0, 70611, 70611, 1, 70625, 70626, 0, 70656, 70708,
    1, 70709, 70726, 0, 70727, 70730, 1, 70736, 70745, 0, 70750, 70750, 0,
    70751, 70753, 1, 70784, 70831, 1, 70832, 70851, 0, 70852, 70853, 1, 70855,
    70855, 1, 70864, 70873, 0, 71040, 71086, 1, 71087, 71093, 0, 71096, 71104,
    0, 71128, 71131, 1, 71132, 71133, 0, 71168, 71215, 1, 71216, 71232, 0,
    71236, 71236, 1, 71248, 71257, 0, 71296, 71338, 1, 71339, 71351, 0, 71352,
    71352, 1, 71360, 71369, 0, 71376, 71395, 0, 71424, 71450, 1, 71453, 71467,
    0, 71472, 71481, 0, 71488, 71494, 1, 71680, 71723, 1, 71724, 71738, 0,
    71840, 71903, 1, 71904, 71913, 0, 71935, 71942, 1, 71945, 71945, 1, 71948,
    71955, 1, 71957, 71958, 1, 71960, 71983, 1, 71984, 71989, 0, 71991, 71992,
    0, 71995, 71998, 0, 71999, 71999, 1, 72000, 72000, 0, 72001, 72001, 1,
    72002, 72003, 0, 72016, 72025, 0, 72096, 72103, 1, 72106, 72144, 1, 72145,
    72151, 0, 72154, 72160, 0, 72161, 72161, 1, 72163, 72163, 1, 72164, 72164,
    0, 72192, 72192, 1, 72193, 72202, 0, 72203, 72242, 1, 72243, 72249, 0,
    72250, 72250, 1, 72251, 72254, 0, 72263, 72263, 0, 72272, 72272, 1, 72273,
    72283, 0, 72284, 72329, 1, 72330, 72345, 0, 72349, 72349, 1, 72368, 72440,
    1, 72544, 72551, 0, 72640, 72672, 1, 72688, 72697, 0, 72704, 72712, 1,
    72714, 72750, 1, 72751, 72758, 0, 72760, 72767, 0, 72768, 72768, 1, 72784,
    72793, 0, 72818, 72847, 1, 72850, 72871, 0, 72873, 72886, 0, 72960, 72966,
    1, 72968, 72969, 1, 72971, 73008, 1, 73009, 73014, 0, 73018, 73018, 0,
    73020, 73021, 0, 73023, 73029, 0, 73030, 73030, 1, 73031, 73031, 0, 73040,
    73049, 0, 73056, 73061, 1, 73063, 73064, 1, 73066, 73097, 1, 73098, 73102,
    0, 73104, 73105, 0, 73107, 73111, 0, 73112, 73112, 1, 73120, 73129, 0,
    73136, 73179, 1, 73184, 73193, 0, 73440, 73458, 1, 73459, 73462, 0, 73472,
    73473, 0, 73474, 73474, 1, 73475, 73475, 0, 73476, 73488, 1, 73490, 73523,
    1, 73524, 73530, 0, 73534, 73538, 0, 73552, 73562, 0, 73648, 73648, 1,
    73728, 74649, 1, 74752, 74862, 1, 74880, 75075, 1, 77712, 77808, 1, 77824,
    78895, 1, 78912, 78912, 0, 78913, 78918, 1, 78919, 78933, 0, 78944, 82938,
    1, 82944, 83526, 1, 90368, 90397, 1, 90398, 90425, 0, 92160, 92728, 1,
    92736, 92766, 1, 92768, 92777, 0, 92784, 92862, 1, 92864, 92873, 0, 92880,
    92909, 1, 92912, 92916, 0, 92928, 92975, 1, 92976, 92982, 0, 92992, 92995,
    1, 93008, 93017, 0, 93027, 93047, 1, 93053, 93071, 1, 93504, 93548, 1,
    93552, 93561, 0, 93760, 93823, 1, 93856, 93880, 1, 93883, 93907, 1, 93952,
    94026, 1, 94031, 94031, 0, 94032, 94032, 1, 94033, 94087, 0, 94095, 94098,
    0, 94099, 94111, 1, 94176, 94177, 1, 94179, 94179, 1, 94180, 94180, 0,
    94192, 94193, 0, 94194, 94198, 1, 94208, 101589, 1, 101631, 101662, 1,
    101760, 101874, 1, 110576, 110579, 1, 110581, 110587, 1, 110589, 110590,
    1, 110592, 110882, 1, 110898, 110898, 1, 110928, 110930, 1, 110933,
    110933, 1, 110948, 110951, 1, 110960, 111355, 1, 113664, 113770, 1,
    113776, 113788, 1, 113792, 113800, 1, 113808, 113817, 1, 113821, 113822,
    0, 118000, 118009, 0, 118528, 118573, 0, 118576, 118598, 0, 119141,
    119145, 0, 119149, 119154, 0, 119163, 119170, 0, 119173, 119179, 0,
    119210, 119213, 0, 119362, 119364, 0, 119808, 119892, 1, 119894, 119964,
    1, 119966, 119967, 1, 119970, 119970, 1, 119973, 119974, 1, 119977,
    119980, 1, 119982, 119993, 1, 119995, 119995, 1, 119997, 120003, 1,
    120005, 120069, 1, 120071, 120074, 1, 120077, 120084, 1, 120086, 120092,
    1, 120094, 120121, 1, 120123, 120126, 1, 120128, 120132, 1, 120134,
    120134, 1, 120138, 120144, 1, 120146, 120485, 1, 120488, 120512, 1,
    120514, 120538, 1, 120540, 120570, 1, 120572, 120596, 1, 120598, 120628,
    1, 120630, 120654, 1, 120656, 120686, 1, 120688, 120712, 1, 120714,
    120744, 1, 120746, 120770, 1, 120772, 120779, 1, 120782, 120831, 0,
    121344, 121398, 0, 121403, 121452, 0, 121461, 121461, 0, 121476, 121476,
    0, 121499, 121503, 0, 121505, 121519, 0, 122624, 122654, 1, 122661,
    122666, 1, 122880, 122886, 0, 122888, 122904, 0, 122907, 122913, 0,
    122915, 122916, 0, 122918, 122922, 0, 122928, 122989, 1, 123023, 123023,
    0, 123136, 123180, 1, 123184, 123190, 0, 123191, 123197, 1, 123200,
    123209, 0, 123214, 123214, 1, 123536, 123565, 1, 123566, 123566, 0,
    123584, 123627, 1, 123628, 123641, 0, 124112, 124139, 1, 124140, 124153,
    0, 124368, 124397, 1, 124398, 124399, 0, 124400, 124400, 1, 124401,
    124410, 0, 124608, 124638, 1, 124640, 124642, 1, 124643, 124643, 0,
    124644, 124645, 1, 124646, 124646, 0, 124647, 124653, 1, 124654, 124655,
    0, 124656, 124660, 1, 124661, 124661, 0, 124670, 124671, 1, 124896,
    124902, 1, 124904, 124907, 1, 124909, 124910, 1, 124912, 124926, 1,
    124928, 125124, 1, 125136, 125142, 0, 125184, 125251, 1, 125252, 125258,
    0, 125259, 125259, 1, 125264, 125273, 0, 126464, 126467, 1, 126469,
    126495, 1, 126497, 126498, 1, 126500, 126500, 1, 126503, 126503, 1,
    126505, 126514, 1, 126516, 126519, 1, 126521, 126521, 1, 126523, 126523,
    1, 126530, 126530, 1, 126535, 126535, 1, 126537, 126537, 1, 126539,
    126539, 1, 126541, 126543, 1, 126545, 126546, 1, 126548, 126548, 1,
    126551, 126551, 1, 126553, 126553, 1, 126555, 126555, 1, 126557, 126557,
    1, 126559, 126559, 1, 126561, 126562, 1, 126564, 126564, 1, 126567,
    126570, 1, 126572, 126578, 1, 126580, 126583, 1, 126585, 126588, 1,
    126590, 126590, 1, 126592, 126601, 1, 126603, 126619, 1, 126625, 126627,
    1, 126629, 126633, 1, 126635, 126651, 1, 130032, 130041, 0, 131072,
    173791, 1, 173824, 178205, 1, 178208, 183981, 1, 183984, 191456, 1,
    191472, 192093, 1, 194560, 195101, 1, 196608, 201546, 1, 201552, 210041,
    1, 917760, 917999, 0>>

\* Whether the code point n may stand in a name, at its start when start
\* holds: a letter, "$", "_" or ID_Start, and after the start also a
\* digit, ID_Continue, U+200C and U+200D.
IdentifierChar(n, start) ==
  IF n < 128
  THEN Ascii[n + 1] \in (IF start THEN Letters ELSE AlphaNumeric)
                          \cup {"$", "_"}
  ELSE \/ ~start /\ n \in {8204, 8205}
       \/ \E i \in 1..(Len(UnicodeIDRanges) \div 3) :
            /\ UnicodeIDRanges[3 * i - 2] <= n
            /\ n <= UnicodeIDRanges[3 * i - 1]
            /\ (~start \/ UnicodeIDRanges[3 * i] = 1)

\* The character of a name at p, as a code point, and the position after
\* it: \u{X}, \uXXXX, two of them or two code units when they are the
\* surrogates of one code point, or one code unit.  Any other backslash
\* is an error.
NameCharacter(src, p) ==
  LET c == At(src, p)
      e == CHOOSE q \in (p + 3)..(Len(src) + 1) :
             /\ At(src, q) \notin HexDigitChars
             /\ \A i \in (p + 3)..(q - 1) : src[i] \in HexDigitChars
      z == CHOOSE q \in (p + 3)..e :
             /\ q = e \/ src[q] # "0"
             /\ \A i \in (p + 3)..(q - 1) : src[i] = "0"
      lead == HexNumber(src, p + 2, 4)
      trail == HexNumber(src, p + 8, 4)
      pair(hi, lo) == 65536 + (hi - 55296) * 1024 + (lo - 56320)
  IN CASE c = "" -> Bad
       [] c = "\\" /\ At(src, p + 1) # "u" -> Bad
       [] c = "\\" /\ At(src, p + 1) = "u" /\ At(src, p + 2) = "{" ->
            IF e > p + 3 /\ At(src, e) = "}" /\ e - z <= 6
                 /\ HexNumber(src, z, e - z) <= 1114111
            THEN [ok |-> TRUE, code |-> HexNumber(src, z, e - z), p |-> e + 1]
            ELSE Bad
       [] c = "\\" /\ At(src, p + 1) = "u" /\ At(src, p + 2) # "{" ->
            IF ~IsHex(src, p + 2, 4) THEN Bad
            ELSE IF lead \in 55296..56319
                      /\ At(src, p + 6) = "\\" /\ At(src, p + 7) = "u"
                      /\ IsHex(src, p + 8, 4) /\ trail \in 56320..57343
            THEN [ok |-> TRUE, code |-> pair(lead, trail), p |-> p + 12]
            ELSE [ok |-> TRUE, code |-> lead, p |-> p + 6]
       [] OTHER ->
            IF CodeOf(c) \in 55296..56319 /\ At(src, p + 1) # ""
                 /\ CodeOf(At(src, p + 1)) \in 56320..57343
            THEN [ok |-> TRUE, code |-> pair(CodeOf(c), CodeOf(src[p + 1])),
                  p |-> p + 2]
            ELSE [ok |-> TRUE, code |-> CodeOf(c), p |-> p + 1]

\* The name read so far and the rest of it up to ">", written as it is
\* or as an escape, as code units.
RECURSIVE GroupNameFrom(_, _, _)
GroupNameFrom(src, p, name) ==
  LET c == NameCharacter(src, p)
  IN IF ~c.ok THEN Bad
     ELSE IF Len(name) > 0 /\ c.code = 62 THEN Ok(name, c.p)
     ELSE IF ~IdentifierChar(c.code, Len(name) = 0) THEN Bad
     ELSE GroupNameFrom(
            src, c.p,
            name \o (IF c.code < 65536
                     THEN <<CharOf(c.code)>>
                     ELSE <<CharOf(55296 + ((c.code - 65536) \div 1024)),
                            CharOf(56320 + ((c.code - 65536) % 1024))>>))

\* <name> at p, where "<" stands: the name and the position after ">".
GroupName(src, p) ==
  IF At(src, p) # "<" THEN Bad ELSE GroupNameFrom(src, p + 1, <<>>)

\* The atom that is the one character esc.
EscapedCharacter(esc) == Ok(CharNode(CharOf(esc.code)), esc.p)

\* What follows a backslash outside a class, the escaped character at p.
\* env: the number of groups and the group names of the whole pattern,
\* which decide what \1 .. \9 and \k are.
AtomEscape(src, p, env) ==
  LET c == At(src, p)
      e == DigitRunEnd(src, p)
      n == CountValue(SubSeq(src, p, e - 1))
      name == GroupName(src, p + 1)
  IN IF c = "" THEN Bad
     ELSE IF c \in DecimalDigits \ {"0"} /\ n <= env.total
     THEN Ok([kind |-> "backref", idx |-> n, back |-> FALSE], e)
     ELSE IF c \in {"8", "9"} THEN Ok(CharNode(c), p + 1)
     ELSE IF c \in {"d", "D", "s", "S", "w", "W"}
     THEN Ok(ClassNode(IF c \in {"d", "D"} THEN DigitRanges
                       ELSE IF c \in {"s", "S"} THEN SpaceRanges
                       ELSE WordRanges,
                       c \in {"D", "S", "W"}), p + 1)
     ELSE IF c = "k" /\ env.named
     THEN IF name.ok /\ \E i \in 1..Len(env.names) : env.names[i] = name.v
          THEN Ok([kind |-> "backref",
                   idx |-> CHOOSE i \in 1..Len(env.names) :
                             env.names[i] = name.v,
                   back |-> FALSE], name.st)
          ELSE Bad
     ELSE EscapedCharacter(CharacterEscape(src, p, Letters))

\* The parse keeps st: p the position in the source, n the number of
\* groups opened so far, names the name of each (<<>> for none).
RECURSIVE Disjunction(_, _, _)
RECURSIVE Alternative(_, _, _, _)
RECURSIVE Term(_, _, _)
RECURSIVE Atom(_, _, _)
RECURSIVE GroupBody(_, _, _)

\* The disjunction of a group and its ")".
GroupBody(src, st, env) ==
  LET d == Disjunction(src, st, env)
  IN IF d.ok /\ At(src, d.st.p) = ")"
     THEN Ok(AltNode(d.v), [d.st EXCEPT !.p = @ + 1])
     ELSE Bad

\* The group idx with the body it was parsed to.
Group(idx, body) ==
  IF body.ok
  THEN Ok([kind |-> "group", idx |-> idx, body |-> body.v], body.st)
  ELSE Bad

\* The class or escape r, read from st on, r.st being where it ends.
Stepped(st, r) == IF r.ok THEN Ok(r.v, [st EXCEPT !.p = r.st]) ELSE Bad

\* One atom at st.p: a group, a class, an escape or a character.  A
\* quantifier with nothing before it to repeat is an error.
Atom(src, st, env) ==
  LET c == At(src, st.p)
      d == At(src, st.p + 1)
      e == At(src, st.p + 2)
      step(k) == [st EXCEPT !.p = @ + k]
      open(k, name) == [p |-> st.p + k, n |-> st.n + 1,
                        names |-> Append(st.names, name)]
      name == GroupName(src, st.p + 2)
  IN CASE c = "(" /\ d = "?" /\ e = ":" -> GroupBody(src, step(3), env)
       [] c = "(" /\ d = "?" /\ e = "<" ->
            IF name.ok /\ \A i \in 1..Len(st.names) : st.names[i] # name.v
            THEN Group(st.n + 1,
                       GroupBody(src, open(name.st - st.p, name.v), env))
            ELSE Bad
       [] c = "(" /\ d = "?" /\ e \notin {":", "<"} -> Bad
       [] c = "(" /\ d # "?" ->
            Group(st.n + 1, GroupBody(src, open(1, <<>>), env))
       [] c \in {"*", "+", "?", ")", "|", ""} -> Bad
       [] c = "{" ->
            IF Braced(src, st.p).is THEN Bad ELSE Ok(CharNode(c), step(1))
       [] c = "[" -> Stepped(st, CharacterClass(src, st.p, env))
       [] c = "." -> Ok([kind |-> "any", back |-> FALSE], step(1))
       [] c = "\\" -> Stepped(st, AtomEscape(src, st.p + 1, env))
       [] OTHER -> Ok(CharNode(c), step(1))

\* The atom a with the quantifier q: {n,m} with n > m is an error.
Repeated(a, lo, q) ==
  IF ~q.is THEN Ok(a.v, a.st)
  ELSE IF q.min > q.max THEN Bad
  ELSE Ok(RepeatNode(a.v, q.min, q.max, q.greedy, lo, a.st.n),
          [a.st EXCEPT !.p = q.p])

\* The atom a with the quantifier that follows it, if any; lo is the
\* number of groups opened before the atom.
Quantified(src, a, lo) ==
  IF ~a.ok THEN Bad ELSE Repeated(a, lo, Quantifier(src, a.st.p))

\* A lookahead or a lookbehind with the body it was parsed to.
Look(behind, negated, body) ==
  IF body.ok
  THEN Ok([kind |-> "look", behind |-> behind, negated |-> negated,
           body |-> IF behind THEN Backward(body.v) ELSE body.v], body.st)
  ELSE Bad

\* One term at st.p: an assertion, which takes no quantifier (a lookahead
\* does), or an atom with its quantifier.
Term(src, st, env) ==
  LET c == At(src, st.p)
      d == At(src, st.p + 1)
      e == At(src, st.p + 2)
      f == At(src, st.p + 3)
      step(k) == [st EXCEPT !.p = @ + k]
  IN CASE c = "^" -> Ok([kind |-> "start"], step(1))
       [] c = "$" -> Ok([kind |-> "end"], step(1))
       [] c = "\\" /\ d = "b" -> Ok([kind |-> "boundary"], step(2))
       [] c = "\\" /\ d = "B" -> Ok([kind |-> "notboundary"], step(2))
       [] c = "(" /\ d = "?" /\ e = "<" /\ f \in {"=", "!"} ->
            Look(TRUE, f = "!", GroupBody(src, step(4), env))
       [] c = "(" /\ d = "?" /\ e \in {"=", "!"} ->
            Quantified(src, Look(FALSE, e = "!", GroupBody(src, step(3), env)),
                       st.n)
       [] OTHER -> Quantified(src, Atom(src, st, env), st.n)

\* The terms read so far, the term t and the terms after it.
Continued(src, env, terms, t) ==
  IF t.ok THEN Alternative(src, t.st, env, Append(terms, t.v)) ELSE Bad

\* The terms up to the next "|" or ")" or the end of the source.
Alternative(src, st, env, terms) ==
  IF At(src, st.p) \in {"", "|", ")"}
  THEN Ok(terms, st)
  ELSE Continued(src, env, terms, Term(src, st, env))

\* The alternative a and the ones that follow its "|".
Alternatives(src, env, a) ==
  IF ~a.ok THEN Bad
  ELSE IF At(src, a.st.p) # "|" THEN Ok(<<a.v>>, a.st)
  ELSE LET rest == Disjunction(src, [a.st EXCEPT !.p = @ + 1], env)
       IN IF rest.ok THEN Ok(<<a.v>> \o rest.v, rest.st) ELSE Bad

\* The alternatives at st.p, "|" between them.
Disjunction(src, st, env) ==
  Alternatives(src, env, Alternative(src, st, env, <<>>))

\* The pattern of the disjunction d when d ends where the source ends.
Whole(src, d) ==
  IF d.ok /\ d.st.p = Len(src) + 1
  THEN [ok |-> TRUE, pattern |-> AltNode(d.v), groups |-> d.st.n,
        names |-> d.st.names]
  ELSE [ok |-> FALSE, pattern |-> AltNode(<<>>), groups |-> 0,
        names |-> <<>>]

\* The whole source under env; a ")" that closes nothing ends the
\* disjunction before the end of the source, which is an error.
Parse(src, env) ==
  Whole(src, Disjunction(src, [p |-> 1, n |-> 0, names |-> <<>>], env))

\* The parse first, or the parse under the groups first found when the
\* source holds \1 .. \9 or \k.
Resolved(src, first) ==
  IF first.ok
       /\ \E i \in 1..(Len(src) - 1) :
            src[i] = "\\" /\ src[i + 1] \in (DecimalDigits \ {"0"}) \cup {"k"}
  THEN Parse(src, [total |-> first.groups, names |-> first.names,
                   named |-> \E i \in 1..Len(first.names) :
                               first.names[i] # <<>>])
  ELSE first

\* The source is parsed for its groups and their names first, \1 .. \9
\* and \k read as escapes of characters, and again with them when it holds
\* such an escape.
Pattern(src) ==
  Resolved(src, Parse(src, [total |-> 0, names |-> <<>>, named |-> FALSE]))

\* `\\b(${allPrefixes})_[a-zA-Z0-9]${lengthQuantifier}\\b`
PatternSource(prefixes, quantifier) ==
  <<"\\", "b", "(">> \o prefixes
    \o <<")", "_", "[", "a", "-", "z", "A", "-", "Z", "0", "-", "9", "]">>
    \o quantifier \o <<"\\", "b">>

\* The regex object of a source and its parse.
Compiled(source, parsed) ==
  [source |-> source, ok |-> parsed.ok, pattern |-> parsed.pattern,
   groups |-> parsed.groups, lastIndex |-> 0]

\* new RegExp(source, "g"): ok tells whether the source is a pattern (a
\* SyntaxError is thrown when it is not); lastIndex starts at 0.
RegExp(source) == Compiled(source, Pattern(source))

NoRegExp ==
  [source |-> <<>>, ok |-> FALSE, pattern |-> AltNode(<<>>), groups |-> 0,
   lastIndex |-> 0]

\* What createIdContext ends with: the tables of acc, the pattern, and
\* the error it threw, if any.
Context(acc, regex, error) ==
  [typeToPrefix |-> acc.typeToPrefix, typeToLength |-> acc.typeToLength,
   prefixToType |-> acc.prefixToType, prefixKeys |-> acc.prefixKeys,
   minLength |-> acc.minLength, maxLength |-> acc.maxLength,
   FIND_ALL_REGEX |-> regex, error |-> error]

\* The context of the tables acc and the regex: the SyntaxError of
\* new RegExp leaves no context.
Finished(acc, regex) ==
  IF ~regex.ok
  THEN Context(acc, NoRegExp, Error("SyntaxError", regex.source))
  ELSE Context(acc, regex, NoError)

Compile(acc) ==
  IF acc.error # NoError
  THEN Context(acc, NoRegExp, acc.error)
  ELSE Finished(acc, RegExp(PatternSource(allPrefixes(acc),
                                          lengthQuantifier(acc))))

createIdContext_NoEmptyCheck(defs, dflt) ==
  Compile(Reduce(ObjectKeys(defs), 1, InitialAcc, dflt))

createIdContext(defs, dflt) ==
  IF Len(ObjectKeys(defs)) = 0
  THEN Context(InitialAcc, NoRegExp, Error("EmptyDefinitions", <<>>))
  ELSE Compile(Reduce(ObjectKeys(defs), 1, InitialAcc, dflt))

(***************************************************************************)
(* The operations of the returned context.  A result is what the call       *)
(* threw or returned, with the calls it made to the injected generator      *)
(* (gen: the argument and the answer of each).                              *)
(***************************************************************************)
Returned(v, gen) ==
  [threw |-> FALSE, value |-> v, error |-> "none", cites |-> <<>>, gen |-> gen]

\* cites: the values the error message reports.
Threw(kind, cites, gen) ==
  [threw |-> TRUE, value |-> Undefined, error |-> kind, cites |-> cites,
   gen |-> gen]

\* create(entityType), the generator answering uniquePart to its one call.
create(t2p, t2l, entityType, uniquePart) ==
  LET prefix == Get(t2p, entityType)
      length == Get(t2l, entityType)
      gen == <<[arg |-> length, ret |-> uniquePart]>>
  IN IF ~Truthy(prefix)
     THEN Threw("UnknownType", <<entityType>>, <<>>)
     ELSE IF uniquePart.t # "string"
     THEN Threw("GeneratorReturnedNonString", <<uniquePart>>, gen)
     ELSE IF ~StrictEquals(Num(Len(uniquePart.s)), length)
     THEN Threw("GeneratorReturnedWrongLength",
                <<Num(Len(uniquePart.s)), length>>, gen)
     ELSE IF ~AlphaNumericTest(uniquePart.s)
     THEN Threw("GeneratorReturnedInvalidCharacters", <<>>, gen)
     ELSE Returned(Str(prefix.s \o <<Separator>> \o uniquePart.s), gen)

\* A truthy id that is no string has no split to call.
getType(p2t, id) ==
  IF ~Truthy(id)
  THEN Returned(Undefined, <<>>)
  ELSE IF id.t # "string"
  THEN Threw("TypeError", <<>>, <<>>)
  ELSE Returned(Get(p2t, Str(Split(id.s, Separator)[1])), <<>>)

getPrefix(t2p, entityType) ==
  LET prefix == Get(t2p, entityType)
  IN IF prefix = Undefined
     THEN Threw("UnknownType", <<entityType>>, <<>>)
     ELSE Returned(prefix, <<>>)

True == [t |-> "boolean", k |-> "true", s |-> <<>>, n |-> 0]

False == [t |-> "boolean", k |-> "false", s |-> <<>>, n |-> 0]

Bool(b) == IF b THEN True ELSE False

isValid(p2t, t2l, id) ==
  IF id.t # "string" \/ ~Includes(id.s, Separator)
  THEN Returned(False, <<>>)
  ELSE LET parts == Split(id.s, Separator)
           prefix == parts[1]
           uniquePart == parts[2]
           entityType == Get(p2t, Str(prefix))
           expectedLength == Get(t2l, entityType)
       IN IF entityType = Undefined
          THEN Returned(False, <<>>)
          ELSE IF ~StrictEquals(Num(Len(uniquePart)), expectedLength)
          THEN Returned(False, <<>>)
          ELSE Returned(Bool(AlphaNumericTest(uniquePart)), <<>>)

isType(p2t, entityType, id) ==
  IF getType(p2t, id).threw
  THEN getType(p2t, id)
  ELSE Returned(Bool(StrictEquals(getType(p2t, id).value, entityType)), <<>>)

(***************************************************************************)
(* Matching FIND_ALL_REGEX.  Positions count from 0, as lastIndex does: the *)
(* character at position p of text is text[p + 1].                          *)
(***************************************************************************)
WordAt(text, p) ==
  p >= 0 /\ p < Len(text) /\ text[p + 1] \in AlphaNumeric \cup {"_"}

\* \b at position p
WordBoundary(text, p) == WordAt(text, p - 1) # WordAt(text, p)

\* Whether the character c is one the node matches; "." leaves out the
\* line terminators \n, \r, U+2028 and U+2029.
CharMatches(node, c) ==
  CASE node.kind = "char" -> c = node.ch
    [] node.kind = "any" -> c \notin {"\n", "\r", "\\u2028", "\\u2029"}
    [] node.kind = "class" ->
         IF c \in AsciiSet
         THEN c \in node.ascii
         ELSE InRanges(node.ranges, CodeOf(c)) # node.negated

NoCapture == [s |-> -1, e |-> -1]

\* The first way, in the order backtracking tries them, to match the nodes
\* of k one after the other from position pos on, caps being what the
\* groups have captured: the position reached and the captures, or
\* Bad.  Beside the nodes of the pattern, k holds "close" where a group
\* ends and "loop" where one round of a repetition ends.  A repetition of
\* one character has no round to close: of the counts of characters the
\* text allows, it takes the largest the rest matches after, the smallest
\* when it is lazy.
RECURSIVE Run(_, _, _, _)
RECURSIVE RunAlternatives(_, _, _, _, _, _)
RunAlternatives(text, alts, i, rest, pos, caps) ==
  IF i > Len(alts)
  THEN Bad
  ELSE LET r == Run(text, alts[i] \o rest, pos, caps)
       IN IF r.ok THEN r
          ELSE RunAlternatives(text, alts, i + 1, rest, pos, caps)

Run(text, k, pos, caps) ==
  IF Len(k) = 0
  THEN [ok |-> TRUE, pos |-> pos, caps |-> caps]
  ELSE
    LET node == Head(k)
        rest == Tail(k)
        on(holds) == IF holds THEN Run(text, rest, pos, caps) ELSE Bad
    IN CASE node.kind \in {"char", "any", "class"} ->
              IF node.back
              THEN IF pos > 0 /\ CharMatches(node, text[pos])
                   THEN Run(text, rest, pos - 1, caps)
                   ELSE Bad
              ELSE IF pos < Len(text) /\ CharMatches(node, text[pos + 1])
                   THEN Run(text, rest, pos + 1, caps)
                   ELSE Bad
         [] node.kind = "start" -> on(pos = 0)
         [] node.kind = "end" -> on(pos = Len(text))
         [] node.kind = "boundary" -> on(WordBoundary(text, pos))
         [] node.kind = "notboundary" -> on(~WordBoundary(text, pos))
         [] node.kind = "alt" ->
              RunAlternatives(text, node.alts, 1, rest, pos, caps)
         [] node.kind = "group" ->
              Run(text,
                  <<node.body, [kind |-> "close", idx |-> node.idx, start |-> pos]>>
                    \o rest,
                  pos, caps)
         [] node.kind = "close" ->
              Run(text, rest, pos,
                  [caps EXCEPT ![node.idx] =
                     [s |-> IF node.start <= pos THEN node.start ELSE pos,
                      e |-> IF node.start <= pos THEN pos ELSE node.start]])
         [] node.kind = "look" ->
              LET r == Run(text, <<node.body>>, pos, caps)
              IN IF node.negated
                 THEN on(~r.ok)
                 ELSE IF r.ok THEN Run(text, rest, pos, r.caps) ELSE Bad
         [] node.kind = "backref" ->
              LET cap == caps[node.idx]
                  len == cap.e - cap.s
                  captured == SubSeq(text, cap.s + 1, cap.e)
              IN IF cap.s < 0 THEN Run(text, rest, pos, caps)
                 ELSE IF node.back
                 THEN IF pos - len >= 0
                           /\ SubSeq(text, pos - len + 1, pos) = captured
                      THEN Run(text, rest, pos - len, caps)
                      ELSE Bad
                 ELSE IF pos + len <= Len(text)
                           /\ SubSeq(text, pos + 1, pos + len) = captured
                      THEN Run(text, rest, pos + len, caps)
                      ELSE Bad
         [] node.kind = "repeat"
              /\ node.atom.kind \in {"char", "any", "class"} ->
              LET room == IF node.atom.back THEN pos ELSE Len(text) - pos
                  at(n) == IF node.atom.back THEN pos - n ELSE pos + n
                  counts ==
                    {n \in node.min..(IF node.max < room
                                      THEN node.max ELSE room) :
                       /\ \A i \in 1..n :
                            CharMatches(node.atom,
                                        text[IF node.atom.back
                                             THEN pos + 1 - i ELSE pos + i])
                       /\ Run(text, rest, at(n), caps).ok}
              IN IF counts = {}
                 THEN Bad
                 ELSE Run(text, rest,
                          at(CHOOSE n \in counts :
                               \A m \in counts :
                                 IF node.greedy THEN m <= n ELSE n <= m),
                          caps)
         [] node.kind = "repeat"
              /\ node.atom.kind \notin {"char", "any", "class"} ->
              LET cleared == [i \in 1..Len(caps) |->
                                IF i > node.lo /\ i <= node.hi
                                THEN NoCapture ELSE caps[i]]
                  round == Run(text,
                               <<node.atom,
                                 [kind |-> "loop", of |-> node, start |-> pos]>>
                                 \o rest,
                               pos, cleared)
                  leave == Run(text, rest, pos, caps)
              IN IF node.max = 0 THEN leave
                 ELSE IF node.min > 0 THEN round
                 ELSE IF node.greedy
                 THEN IF round.ok THEN round ELSE leave
                 ELSE IF leave.ok THEN leave ELSE round
         [] node.kind = "loop" ->
              IF node.of.min = 0 /\ pos = node.start
              THEN Bad
              ELSE Run(text,
                       <<[node.of EXCEPT
                            !.min = IF @ = 0 THEN 0 ELSE @ - 1,
                            !.max = IF @ = Unbounded THEN @ ELSE @ - 1]>>
                         \o rest,
                       pos, caps)

\* regex.exec(text) from position from: the leftmost match, as
\* [index, end], index = -1 when nothing matches.  starts holds the
\* positions from from on that a match starts at.
ExecAt(regex, text, starts) ==
  IF starts = {}
  THEN [index |-> -1, end |-> 0]
  ELSE LET index == CHOOSE p \in starts : \A q \in starts : p <= q
       IN [index |-> index,
           end |-> Run(text, <<regex.pattern>>, index,
                       [i \in 1..regex.groups |-> NoCapture]).pos]

Exec(regex, text, from) ==
  ExecAt(regex, text,
         {p \in from..Len(text) :
            Run(text, <<regex.pattern>>, p,
                [i \in 1..regex.groups |-> NoCapture]).ok})

\* The search m and the regex as it leaves it: lastIndex at the end of
\* the match, at 0 when nothing matched.
Searched(regex, m) ==
  [match |-> m,
   regex |-> [regex EXCEPT !.lastIndex = IF m.index < 0 THEN 0 ELSE m.end]]

\* regex.exec(text) of a global regex: the search starts at lastIndex.
RegExpExec(regex, text) == Searched(regex, Exec(regex, text, regex.lastIndex))

\* One regex.exec(text) in place of text.match(regex).
StringMatch_Exec(regex, text) ==
  [value |-> IF RegExpExec(regex, text).match.index < 0
             THEN Null
             ELSE Arr(<<SubSeq(text, RegExpExec(regex, text).match.index + 1,
                               RegExpExec(regex, text).match.end)>>),
   regex |-> RegExpExec(regex, text).regex]

RECURSIVE MatchAll(_, _, _)
\* The matches found, with what the search r adds to them: when it found
\* one, it and the ones of the searches after it, lastIndex moved one
\* character on when the match is empty; when it found none, the value of
\* text.match(regex), null when nothing matched at all.
Collected(text, found, r) ==
  IF r.match.index < 0
  THEN [value |-> IF found = <<>> THEN Null ELSE Arr(found), regex |-> r.regex]
  ELSE MatchAll(IF r.match.end = r.match.index
                THEN [r.regex EXCEPT !.lastIndex = @ + 1]
                ELSE r.regex,
                text,
                Append(found, SubSeq(text, r.match.index + 1, r.match.end)))

\* regex.exec(text) again and again, until it finds nothing.
MatchAll(regex, text, found) == Collected(text, found, RegExpExec(regex, text))

\* text.match(regex) for a global regex: lastIndex is set to 0 and every
\* match is collected; value is what it returns and regex the regex as
\* it leaves it.
StringMatch(regex, text) == MatchAll([regex EXCEPT !.lastIndex = 0], text, <<>>)

\* findAll(text), matched being text.match(FIND_ALL_REGEX).
findAll(p2t, t2l, matched) ==
  IF matched = Null
  THEN Returned(Arr(<<>>), <<>>)
  ELSE Returned(Arr(SelectSeq(matched.s,
                     LAMBDA id : isValid(p2t, t2l, Str(id)).value = True)),
                <<>>)

(***************************************************************************)
(* Inputs: the definitions and the configuration a context is built from,   *)
(* the arguments of the calls, and what the injected generator answers.     *)
(***************************************************************************)
USER == <<"u","s","e","r">>

TypeNames == {USER, <<>>, PROTO}

\* The keys of definitions that hold a symbol key.
SymbolTypeNames == {SYMBOL, USER}

\* "u?" is a prefix the pattern reads in its own way, a character with a
\* quantifier; "x-u" holds a character that is no word character and ends
\* with the prefix "u".
PrefixValues ==
  {Str(<<"u">>), Str(<<"1">>), Str(<<>>), Str(<<"u","_">>), Str(CONSTRUCTOR),
   Str(<<"(">>), Str(<<"u","?">>), Str(<<"x","-","u">>), Num(5)}

LengthValues ==
  {Num(i) : i \in 0..MaxLen}
    \cup {Num(-1), [Num(2) EXCEPT !.n = @ + 1], NaN, Str(<<"8">>)}

DefaultLengths == {Num(0), Num(MaxLen)}

\* Every string prefix bare, "u" with every length, and the prefix that is
\* no string with the length 1.
TypeSpecs ==
  {Bare(p) : p \in {q \in PrefixValues : q.t = "string"}}
    \cup {Structured(Str(<<"u">>), l) : l \in LengthValues}
    \cup {Structured(p, Num(1)) : p \in {q \in PrefixValues : q.t # "string"}}

SeqsUpTo(S, n) == UNION {[1..m -> S] : m \in 0..n}

TypeArgs == {Str(s) : s \in TypeNames \cup {CONSTRUCTOR, <<"f","o","o">>}} \cup {Sym(SYMBOL)}

IdArgs ==
  {Undefined, Num(5)} \cup {Str(s) : s \in SeqsUpTo({"u", "_"}, MaxIdLen)}
    \cup {Str(<<"u","_","u","u">>), Str(<<"u","_","u","_">>),
          Str(<<"1","_","u">>), Str(<<"1","_","u","u">>),
          Str(<<"u","_","-">>), Str(<<"u","-","u">>),
          Str(CONSTRUCTOR), Str(CONSTRUCTOR \o <<"_","u">>),
          Str(<<"t","o","S","t","r","i","n","g","_","u","u">>),
          Str(<<"f","o","o","_","u">>)}

\* What the generator answers: no string, strings of every length up to
\* MaxLen + 1, and strings that end with a character that is not
\* alphanumeric.
GeneratorResults ==
  {Null, Str(<<"-">>), Str(<<"a","-">>)}
    \cup {Str([i \in 1..k |-> "a"]) : k \in 0..(MaxLen + 1)}
    \cup {Str([i \in 1..k |-> IF i = k THEN "_" ELSE "a"]) : k \in 1..(MaxLen + 1)}

\* The identifiers isType is asked about.
IsTypeIds ==
  {Undefined, Num(5), Str(<<"u","_","u">>), Str(<<"1","_","u","u">>),
   Str(CONSTRUCTOR \o <<"_","u">>)}

UA == <<"u","_","a">>

UAA == <<"u","_","a","a">>

ONEAA == <<"1","_","a","a">>

\* Texts of words with a space between them, and texts whose identifiers
\* have other neighbours.
TextArgs ==
  {Str(Join(ws, <<" ">>)) :
     ws \in {<<>>, <<UA>>, <<UAA>>, <<ONEAA>>, <<UA, UA>>, <<UA, ONEAA>>,
             <<ONEAA, UA>>, <<UAA, UA>>, <<ONEAA, UAA>>, <<UA, ONEAA, UA>>,
             <<ONEAA, UAA, ONEAA>>, <<UAA, UA, ONEAA>>}}
    \cup {Str(<<"u","_","a","_","a">>), Str(<<"a","u","_","a">>),
          Str(<<"u","_","a","-","u","_","a">>),
          Str(<<".","u","_","a","a",".">>),
          Str(<<"u","_","a","{","2",".","5","}","a">>),
          Str(<<"u","_","a","{","2","\\u2028","5","}","a">>),
          Str(<<"u","?","_","a","a">>),
          Str(UAA \o <<" ","x","-">> \o UAA)}

Idle == [op |-> "none", arg |-> Undefined]

built == ctorError = NoError

(***************************************************************************)
(* Init: the state after createIdContext(definitions, config).              *)
(***************************************************************************)
\* config.defaultLength is read for a bare prefix only: definitions that
\* hold entries and no bare prefix are built under one default length.
InitFrom(Names) ==
  /\ \E m \in 0..MaxTypes :
       \E names \in {f \in [1..m -> Names] :
                        \A i, j \in 1..m : f[i] = f[j] => i = j} :
         \E specs \in [1..m -> TypeSpecs] :
           definitions = [i \in 1..m |-> [name |-> names[i], spec |-> specs[i]]]
  /\ defaultLength \in
       (IF Len(definitions) = 0
             \/ \E i \in 1..Len(definitions) : definitions[i].spec.t = "string"
        THEN DefaultLengths
        ELSE {Num(MaxLen)})
  /\ \E ctx \in {createIdContext(definitions, defaultLength)} :
       /\ ctorError = ctx.error
       /\ typeToPrefix = (IF ctx.error = NoError THEN ctx.typeToPrefix ELSE <<>>)
       /\ typeToLength = (IF ctx.error = NoError THEN ctx.typeToLength ELSE <<>>)
       /\ prefixToType = (IF ctx.error = NoError THEN ctx.prefixToType ELSE <<>>)
       /\ minLength = (IF ctx.error = NoError THEN ctx.minLength ELSE Undefined)
       /\ maxLength = (IF ctx.error = NoError THEN ctx.maxLength ELSE Undefined)
       /\ FIND_ALL_REGEX = ctx.FIND_ALL_REGEX
  /\ pending = Idle
  /\ last = [op |-> "none", arg |-> Undefined, result |-> Returned(Undefined, <<>>)]

Init == InitFrom(TypeNames)

\* The same, the definitions holding a symbol key.
InitSymbols == InitFrom(SymbolTypeNames)

(***************************************************************************)
(* The caller issues one call at a time on a context that was built, the    *)
(* context answers it, and the caller takes the answer or issues the same   *)
(* call once more.                                                          *)
(***************************************************************************)
Call ==
  /\ built
  /\ pending = Idle
  /\ last.op = "none"
  /\ \/ \E t \in TypeArgs : pending' = [op |-> "create", arg |-> t]
     \/ \E t \in TypeArgs : pending' = [op |-> "getPrefix", arg |-> t]
     \/ \E id \in IdArgs : pending' = [op |-> "getType", arg |-> id]
     \/ \E id \in IdArgs : pending' = [op |-> "isValid", arg |-> id]
     \/ \E t \in TypeArgs, id \in IsTypeIds :
          pending' = [op |-> "isType", arg |-> [entityType |-> t, id |-> id]]
     \/ \E text \in TextArgs : pending' = [op |-> "findAll", arg |-> text]
  /\ UNCHANGED <<inputs, registry, FIND_ALL_REGEX, last>>

Answer(result) ==
  /\ last' = [op |-> pending.op, arg |-> pending.arg, result |-> result]
  /\ pending' = Idle
  /\ UNCHANGED <<inputs, registry, FIND_ALL_REGEX>>

Create ==
  /\ pending.op = "create"
  /\ \E uniquePart \in GeneratorResults :
       Answer(create(typeToPrefix, typeToLength, pending.arg, uniquePart))

GetType ==
  /\ pending.op = "getType"
  /\ Answer(getType(prefixToType, pending.arg))

GetPrefix ==
  /\ pending.op = "getPrefix"
  /\ Answer(getPrefix(typeToPrefix, pending.arg))

IsValid ==
  /\ pending.op = "isValid"
  /\ Answer(isValid(prefixToType, typeToLength, pending.arg))

IsType ==
  /\ pending.op = "isType"
  /\ Answer(isType(prefixToType, pending.arg.entityType, pending.arg.id))

FindAll ==
  /\ pending.op = "findAll"
  /\ \E matched \in {StringMatch(FIND_ALL_REGEX, pending.arg.s)} :
       /\ last' = [op |-> pending.op, arg |-> pending.arg,
                   result |-> findAll(prefixToType, typeToLength, matched.value)]
       /\ FIND_ALL_REGEX' = matched.regex
  /\ pending' = Idle
  /\ UNCHANGED <<inputs, registry>>

Take ==
  /\ pending = Idle
  /\ last.op # "none"
  /\ last' = [op |-> "none", arg |-> Undefined, result |-> Returned(Undefined, <<>>)]
  /\ UNCHANGED <<inputs, registry, FIND_ALL_REGEX, pending>>

\* The call that was answered last, issued again with the same argument.
Repeat ==
  /\ pending = Idle
  /\ last.op # "none"
  /\ pending' = [op |-> last.op, arg |-> last.arg]
  /\ UNCHANGED <<inputs, registry, FIND_ALL_REGEX, last>>

Next ==
  \/ Call \/ Create \/ GetType \/ GetPrefix \/ IsValid \/ IsType \/ FindAll
  \/ Take \/ Repeat

Spec == Init /\ [][Next]_vars

SpecSymbols == InitSymbols /\ [][Next]_vars

(***************************************************************************)
(* Vocabulary of the properties, stated on the definitions the context was  *)
(* built from.                                                              *)
(***************************************************************************)
Entries == 1..Len(definitions)

DefinedNames == {definitions[i].name : i \in Entries}

PrefixOf(i) == ResolvedPrefix(definitions[i].spec)

LengthOf(i) == ResolvedLength(definitions[i].spec, defaultLength)

EntryOf(name) == CHOOSE i \in Entries : definitions[i].name = name

IsPositiveInteger(v) ==
  v.t = "number" /\ v.k = "finite" /\ v.n > 0 /\ v.n % 2 = 0

IsWellFormedPrefix(p) ==
  p.t = "string" /\ p.s # <<>> /\ \A i \in 1..Len(p.s) : p.s[i] # "_"

\* The error, if any, that the entries before i account for.
RaisedBefore(i) ==
  \E j \in 1..(i - 1) :
    ctorError \in {Error("InvalidPrefix", definitions[j].name),
                   Error("InvalidLength", definitions[j].name),
                   Error("DuplicatePrefix", PrefixOf(j).s)}

Created == built /\ last.op = "create" /\ ~last.result.threw

CreatedDefined == Created /\ last.arg.s \in DefinedNames

\* The text of s from its first separator on, the separator left out.
Remainder(s) == SubSeq(s, IndexOf(s, Separator) + 1, Len(s))

LeadingSegment(s) ==
  IF Includes(s, Separator) THEN SubSeq(s, 1, IndexOf(s, Separator) - 1) ELSE s

RegisteredPrefixes == {PrefixOf(i).s : i \in Entries}

\* C1: isValid(create(t)) is true for every defined type t of a context that
\* was built, whenever create(t) returns an identifier.
C1_RoundTripIsValid ==
  CreatedDefined =>
    isValid(prefixToType, typeToLength, last.result.value).value = True

\* C2: getType(create(t)) is exactly t for every defined type t of a context
\* that was built, whenever create(t) returns an identifier.
C2_RoundTripGetType ==
  CreatedDefined =>
    getType(prefixToType, last.result.value).value = last.arg

\* C3: isValid(s) is true exactly when s has a separator, the text before
\* the first separator is a registered prefix, and everything after that
\* first separator has the type's resolved length and is alphanumeric.
C3_StrictFormat ==
  (built /\ last.op = "isValid") =>
    (last.result.value = True <=>
       /\ last.arg.t = "string"
       /\ Includes(last.arg.s, Separator)
       /\ \E i \in Entries :
            /\ PrefixOf(i).s = LeadingSegment(last.arg.s)
            /\ Num(Len(Remainder(last.arg.s))) = LengthOf(i)
            /\ AlphaNumericTest(Remainder(last.arg.s)))

\* C4: definitions in which two distinct type-names resolve to the same
\* well-formed prefix never build: construction throws DuplicatePrefix,
\* whatever the (valid) lengths are.
C4_DuplicatePrefixRejected ==
  (/\ \A i \in Entries : IsWellFormedPrefix(PrefixOf(i))
                            /\ IsPositiveInteger(LengthOf(i))
   /\ \E i, j \in Entries : i # j /\ PrefixOf(i) = PrefixOf(j))
    => ctorError.kind = "DuplicatePrefix"

\* C5: a type whose resolved length is not a positive integer makes
\* construction fail with InvalidLength, so every length a built context
\* holds is a positive integer.
C5_LengthPositiveInteger ==
  /\ \A i \in Entries :
       (IsWellFormedPrefix(PrefixOf(i)) /\ ~IsPositiveInteger(LengthOf(i)))
         => (ctorError = Error("InvalidLength", definitions[i].name)
               \/ RaisedBefore(i))
  /\ built => \A t \in DOMAIN typeToLength : IsPositiveInteger(typeToLength[t])

\* C6: every type whose resolved prefix is empty, not a string, or contains
\* the separator makes construction fail with InvalidPrefix, so every
\* prefix a built context holds is a non-empty string without the
\* separator.
C6_PrefixWellFormed ==
  /\ \A i \in Entries :
       ~IsWellFormedPrefix(PrefixOf(i)) => ctorError.kind = "InvalidPrefix"
  /\ built =>
       /\ \A t \in DOMAIN typeToPrefix : IsWellFormedPrefix(typeToPrefix[t])
       /\ \A p \in DOMAIN prefixToType : IsWellFormedPrefix(Str(p))

\* C7: definitions of zero entries always fail with EmptyDefinitions,
\* whatever the default length of the configuration is, a valid one or not.
C7_EmptyDefinitions ==
  Len(definitions) = 0 => ctorError = Error("EmptyDefinitions", <<>>)

C7_Witness ==
  /\ Len(definitions) = 0
  /\ defaultLength = Num(0)
  /\ ctorError.kind = "EmptyDefinitions"
  /\ ~built

\* C8: for a defined type t of resolved length L, create(t) returns
\* prefix(t) + "_" + u exactly when the generator's answer u is a string of
\* length L made of [A-Za-z0-9]; otherwise it throws the first applicable of
\* NonString, WrongLength (citing actual and expected), InvalidCharacters.
C8_GeneratorOutputValidated ==
  (built /\ last.op = "create" /\ last.arg.s \in DefinedNames) =>
    LET i == EntryOf(last.arg.s)
        r == last.result
        u == r.gen[1].ret
    IN /\ Len(r.gen) = 1
       /\ IF u.t # "string"
          THEN r.threw /\ r.error = "GeneratorReturnedNonString"
          ELSE IF Num(Len(u.s)) # LengthOf(i)
          THEN /\ r.threw /\ r.error = "GeneratorReturnedWrongLength"
               /\ r.cites = <<Num(Len(u.s)), LengthOf(i)>>
          ELSE IF ~AlphaNumericTest(u.s)
          THEN r.threw /\ r.error = "GeneratorReturnedInvalidCharacters"
          ELSE ~r.threw /\ r.value = Str(PrefixOf(i).s \o <<"_">> \o u.s)

\* C9: create(x) and getPrefix(x) throw UnknownType for every x that is not
\* a key of the definitions, and return nothing.
C9_UnknownTypeRejected ==
  (built /\ last.op \in {"create", "getPrefix"}
         /\ last.arg.s \notin DefinedNames) =>
    (last.result.threw /\ last.result.error = "UnknownType")

\* C10: getType and isValid never throw, for undefined and for every
\* string; getType returns undefined and isValid false when the text before
\* the first separator is no registered prefix; getType only returns
\* undefined or a key of the definitions.
C10_LenientDecode ==
  (built /\ last.op \in {"getType", "isValid"}
         /\ last.arg.t \in {"string", "undefined"}) =>
    /\ ~last.result.threw
    /\ last.op = "getType" =>
         \/ last.result.value = Undefined
         \/ /\ last.result.value.t = "string"
            /\ last.result.value.s \in DefinedNames
    /\ (last.arg.t # "string"
          \/ LeadingSegment(last.arg.s) \notin RegisteredPrefixes) =>
         last.result.value = (IF last.op = "getType" THEN Undefined ELSE False)

\* The words of text: its longest runs of word characters, in their order.
RECURSIVE WordTokens(_, _)
WordTokens(text, p) ==
  IF p >= Len(text)
  THEN <<>>
  ELSE IF ~WordAt(text, p)
  THEN WordTokens(text, p + 1)
  ELSE LET q == CHOOSE e \in (p + 1)..Len(text) :
                  /\ ~WordAt(text, e)
                  /\ \A j \in p..(e - 1) : WordAt(text, j)
       IN <<SubSeq(text, p + 1, q)>> \o WordTokens(text, q)

FoundAll == built /\ last.op = "findAll"

Found == last.result.value.s

RECURSIVE Subsequence(_, _)
\* a is b with some of its elements left out.
Subsequence(a, b) ==
  IF a = <<>> THEN TRUE
  ELSE IF b = <<>> THEN FALSE
  ELSE IF Head(a) = Head(b) THEN Subsequence(Tail(a), Tail(b))
  ELSE Subsequence(a, Tail(b))

\* How often w stands in the sequence ws.
Occurrences(ws, w) == Cardinality({i \in 1..Len(ws) : ws[i] = w})

\* C11: findAll(text) returns the identifiers in the order they stand in
\* text and keeps repeats: the result is a subsequence of the words of
\* text, in textual order, and a word that is an identifier is in the
\* result as often as it stands in text.
C11_OrderAndDuplicates ==
  FoundAll =>
    /\ ~last.result.threw
    /\ Subsequence(Found, WordTokens(last.arg.s, 0))
    /\ \A i \in 1..Len(WordTokens(last.arg.s, 0)) :
         isValid(prefixToType, typeToLength,
                 Str(WordTokens(last.arg.s, 0)[i])).value = True
           => Occurrences(Found, WordTokens(last.arg.s, 0)[i])
                = Occurrences(WordTokens(last.arg.s, 0), WordTokens(last.arg.s, 0)[i])

\* The text from position p up to position e, when it stands between
\* characters that are no word characters, or the ends of text.
Delimited(text, p, e) == ~WordAt(text, p - 1) /\ ~WordAt(text, e)

\* C12: findAll(text) holds the valid identifiers of text and nothing else:
\* every element satisfies isValid, and every part of text that satisfies
\* isValid and stands between non-identifier characters or the ends of text
\* is an element.
C12_AllAndOnlyValid ==
  FoundAll =>
    /\ \A i \in 1..Len(Found) :
         isValid(prefixToType, typeToLength, Str(Found[i])).value = True
    /\ \A p \in 0..Len(last.arg.s) : \A e \in (p + 1)..Len(last.arg.s) :
         (/\ Delimited(last.arg.s, p, e)
          /\ isValid(prefixToType, typeToLength,
                     Str(SubSeq(last.arg.s, p + 1, e))).value = True)
           => \E i \in 1..Len(Found) : Found[i] = SubSeq(last.arg.s, p + 1, e)

\* The type-names whose entry resolves to the prefix seg.
RegisteredFor(seg) ==
  {definitions[i].name : i \in {j \in Entries : PrefixOf(j).s = seg}}

\* C13: getType is a lenient decode: for every string s, getType(s) is the
\* type-name registered for the text of s before its first separator
\* (undefined when none is registered), whatever the length or the
\* characters of the rest of s; getType(undefined) is undefined.
C13_LenientGetType ==
  (built /\ last.op = "getType" /\ last.arg.t \in {"string", "undefined"}) =>
    /\ ~last.result.threw
    /\ IF last.arg.t # "string" \/ RegisteredFor(LeadingSegment(last.arg.s)) = {}
       THEN last.result.value = Undefined
       ELSE /\ last.result.value.t = "string"
            /\ last.result.value.s \in RegisteredFor(LeadingSegment(last.arg.s))

\* The entries of the definitions whose key is the symbol.
SymbolEntries == {i \in Entries : definitions[i].name = SYMBOL}

WellFormedDefinitions ==
  /\ Len(definitions) >= 1
  /\ \A i \in Entries : IsWellFormedPrefix(PrefixOf(i))
                            /\ IsPositiveInteger(LengthOf(i))
  /\ \A i, j \in Entries : i # j => PrefixOf(i) # PrefixOf(j)

\* C14: entity types may be keyed by symbols: well-formed definitions that
\* hold a symbol key build a context (they are not taken as empty), create
\* of that symbol returns an identifier with the symbol's prefix whenever the
\* generator answers well, and getType of an identifier with that prefix
\* returns the symbol.
C14_SymbolKeys ==
  (WellFormedDefinitions /\ SymbolEntries # {}) =>
    /\ built
    /\ \A i \in SymbolEntries :
         /\ (/\ last.op = "create" /\ last.arg = Sym(SYMBOL)
             /\ last.result.gen # <<>>
             /\ last.result.gen[1].ret.t = "string"
             /\ Num(Len(last.result.gen[1].ret.s)) = LengthOf(i)
             /\ AlphaNumericTest(last.result.gen[1].ret.s))
              => /\ ~last.result.threw
                 /\ LeadingSegment(last.result.value.s) = PrefixOf(i).s
         /\ (/\ last.op = "getType" /\ last.arg.t = "string"
             /\ LeadingSegment(last.arg.s) = PrefixOf(i).s)
              => last.result.value = Sym(SYMBOL)

\* The call that is pending is the call that was answered last.
CalledAgain == pending.op = last.op /\ pending.arg = last.arg

\* C15: a context never changes after construction: every step of every
\* call, failing ones included, leaves the definitions' tables and the
\* extraction pattern (its lastIndex too) as they were, and getType,
\* getPrefix, isValid, isType and findAll, called again with the argument
\* of the call before, answer what they answered before.
C15_Immutable ==
  [][/\ registry' = registry
     /\ FIND_ALL_REGEX' = FIND_ALL_REGEX
     /\ (/\ CalledAgain
         /\ pending.op \in {"getType", "getPrefix", "isValid", "isType", "findAll"}
         /\ last'.op = pending.op)
          => last'.result = last.result]_vars

\* findAll has answered a text with two identifiers, the search behind it
\* has moved lastIndex and set it back, and the same call is issued again.
C15_Witness ==
  /\ FoundAll
  /\ Len(Found) >= 2
  /\ CalledAgain
  /\ FIND_ALL_REGEX.lastIndex = 0

\* C16: create of a defined type t calls the generator exactly once, with
\* t's resolved length, and an identifier it returns is as long as t's
\* prefix, the separator and that length; a create that throws UnknownType
\* does not call the generator, and no other operation calls it.
C16_GeneratorCalledOnce ==
  built =>
    /\ (last.op = "create" /\ last.arg.s \in DefinedNames) =>
         LET i == EntryOf(last.arg.s)
         IN /\ Len(last.result.gen) = 1
            /\ last.result.gen[1].arg = LengthOf(i)
            /\ ~last.result.threw =>
                 Num(Len(last.result.value.s))
                   = [LengthOf(i) EXCEPT !.n = @ + 2 * (Len(PrefixOf(i).s) + 1)]
    /\ (last.op = "create" /\ last.result.error = "UnknownType") =>
         last.result.gen = <<>>
    /\ last.op # "create" => last.result.gen = <<>>

\* C17: construction rejects only what its four errors describe: definitions
\* of at least one entry whose resolved prefixes are non-empty strings
\* without the separator and pairwise distinct, and whose resolved lengths
\* are positive integers, build a context, and no error is raised, none
\* while the extraction pattern is derived from the prefixes either.
C17_OnlyDescribedRejections ==
  WellFormedDefinitions => built

====
